---- MODULE Spec2Model ----
(***************************************************************************)
(* A model of the wagering engine of the casino bot:                        *)
(*   - the ledger (user balances and the house balance, DatabaseManager),   *)
(*   - the challenge machinery of AntariaCasinoBot (pending_pvp: the        *)
(*     emoji PvP duel, the generic V2 series against the bot and against a  *)
(*     player, the periodic sweep check_expired_challenges),                *)
(*   - the blackjack round (BlackjackGame and its settlement in             *)
(*     _display_blackjack_state),                                           *)
(*   - one Hand object, card by card, and the dealer's loop on it,          *)
(*   - tips between users and the transaction log (tip_command,             *)
(*     DatabaseManager.add_transaction).                                    *)
(*                                                                         *)
(* Scheduling.  The Application is built without concurrent_updates, so     *)
(* update handlers run one after the other (one handler "thread", h).  The  *)
(* sweep is a job of the job queue and generic_v2_pvp_loop is an asyncio    *)
(* task: both interleave with a handler, but only at an await.  An action   *)
(* of this module is therefore the code between two awaits.                 *)
(*                                                                         *)
(* Money is an integer number of cents; wagers are even so that bet/2 and   *)
(* 1.5 x bet are integers.  Time is an integer number of seconds.           *)
(***************************************************************************)
EXTENDS Integers, Sequences, FiniteSets, TLC

\* ------------------------------------------------------------------ bounds
MaxTime == 61         \* the clock stops here
MaxSeries == 1        \* the V2 games of a run
MaxSweeps == 2        \* the sweeps that find an expired challenge
MaxChallenges == 2    \* challenge ids handed out in one run

\* ------------------------------------------------------- program constants
Timeout == 30         \* "(current_time - wait_started).total_seconds() > 30"
HouseSeed == 1000000  \* "house_balance": 10000.00
MinAmount == 1        \* "wager <= 0.01", "amount <= 0.01": the amounts refused as too small

Users == {1, 2, 3}
NoUser == 0           \* opponent: None
CIDs == 1..MaxChallenges
Wagers == {2}
InitBalance == [u \in Users |-> 3]
Deltas == {30, 31}    \* the steps of the clock
Vals == {1, 2}        \* dice values a player or the bot sends
\* the series set-ups tried: <<rolls, mode, pts>> of the setup buttons
\* ("1 Roll"/"2 Rolls", "Normal"/"Crazy", "1 Point"/"2 Points (Bo3)")
Configs == {<<1, "normal", 1>>, <<2, "crazy", 1>>}
NoStamp == -1         \* a timestamp key that is absent from the dict

\* blackjack: the player, the bets, the ranks in play and the rounds of a run
BJUser == 1
Bets == {0, 2}
BJBalance == 5
Ranks == {"A", "T", "6", "5"}
PlayerRanks == {"A", "T", "6"}
MaxRounds == 1
MaxCards == 3          \* the player hits a hand of fewer cards
MaxDealerCards == 4    \* the shoe lets the dealer finish with so many cards
DEALER_STANDS_ON_SOFT_17 == FALSE

\* the shoe: RANKS and SUITS of blackjack.py, the decks of a shoe that is built
\* and the size below which deal_card builds a new one
RANKS == {"2", "3", "4", "5", "6", "7", "8", "9", "T", "J", "Q", "K", "A"}
SUITS == {"H", "D", "C", "S"}
ShoeDecks == 6         \* "num_decks: int = 6", "self._initialize_cards(6)"
ReshuffleBelow == 52   \* "len(self.cards) < 52"
MaxDecks == 6          \* the shoes tried are built of up to so many decks

\* deposits: the webhook's settings and the transaction ids in play
RequiredConfirmations == 3   \* LTC_REQUIRED_CONFIRMATIONS, '3'
DepositFeePercent == 2       \* DEPOSIT_FEE_PERCENT, '2'
LtcUsdRate == 100            \* LTC_USD_RATE, '100'
ProcessedCap == 1000         \* "if len(processed_deposits) > 1000: ... [-1000:]"
MaxTx == 1001                \* transaction ids 1..MaxTx
TxIds == 1..MaxTx
MaxRedelivered == 2          \* the transactions 1..MaxRedelivered are notified again

VARIABLES
    balance,      \* db.data['users'][u]['balance']
    house,        \* db.data['house_balance']
    chal,         \* the challenge dict objects, by challenge id
    pending,      \* the keys of pending_pvp, in insertion order
    nextCid,      \* challenge ids handed out so far
    now,          \* datetime.now()
    clicked,      \* clicked_buttons: the V2 join buttons already used
    h,            \* the update handler in progress (at an await) or idle
    t,            \* the sweep job check_expired_challenges
    loop,         \* the generic_v2_pvp_loop task of each challenge
    result,       \* what the last handler answered
    byTick,       \* history: settlements of each challenge made by the sweep
    byMove,       \* history: payouts of each challenge made by a move
    byAccept,     \* history: the users whose stake an accept has taken
    turnStart,    \* history: when each challenge was accepted or last had a turn completed
    bj,           \* blackjack_sessions[user]: the BlackjackGame, or no session
    bjHist,       \* history of the blackjack round in progress
    hand,         \* Hand.cards of one Hand object, as add_card builds it
    dpc,          \* where that hand is: being dealt, in the dealer's loop, or done
    txns,         \* db.data['transactions']: the amounts recorded for each user
    shoe,         \* one Deck object: len(cards), and what its last deal_card did
    processed,    \* db.data['processed_deposits']: the transaction ids, in order
    credited      \* db.data['deposit_history']: the deposits credited, in order, each
                  \* with the confirmations its notification carried

vars == <<balance, house, chal, pending, nextCid, now, clicked, h, t, loop,
          result, byTick, byMove, byAccept, turnStart, bj, bjHist, hand, dpc, txns,
          shoe, processed, credited>>

chVars == <<chal, pending, nextCid, now, clicked, h, t, loop, byTick, byMove, byAccept, turnStart>>
bjVars == <<bj, bjHist>>
cardVars == <<hand, dpc>>
logVars == <<txns>>
shoeVars == <<shoe>>
depVars == <<processed, credited>>

\* ----------------------------------------------------------------- helpers
RECURSIVE SumSeq(_)
SumSeq(s) == IF s = <<>> THEN 0 ELSE Head(s) + SumSeq(Tail(s))

\* the sum of the values of a function with a finite domain
RECURSIVE SumOver(_)
SumOver(f) ==
    IF DOMAIN f = {} THEN 0
    ELSE LET x == CHOOSE y \in DOMAIN f : TRUE IN
         f[x] + SumOver([y \in DOMAIN f \ {x} |-> f[y]])

Range(s) == {s[i] : i \in 1..Len(s)}

\* del d[k] on the key list of a dict
RemoveKey(s, k) == SelectSeq(s, LAMBDA x : x # k)

\* the last n elements of s: s[-n:]
LastN(s, n) == IF Len(s) <= n THEN s ELSE SubSeq(s, Len(s) - n + 1, Len(s))

NoChallenge ==
    [kind |-> "none", owner |-> NoUser, challenger |-> NoUser, opponent |-> NoUser, wager |-> 0,
     created_at |-> NoStamp, emoji_wait |-> NoStamp,
     waiting_for_challenger_emoji |-> FALSE, waiting_for_emoji |-> FALSE,
     rolls |-> 0, mode |-> "normal", pts |-> 0, p1_pts |-> 0, p2_pts |-> 0,
     p1_rolls |-> <<>>, p2_rolls |-> <<>>, cur_rolls |-> 0,
     waiting_p1 |-> FALSE, waiting_p2 |-> FALSE]

Idle == [pc |-> "idle", cid |-> 0, user |-> NoUser]
TickIdle(n) == [pc |-> "idle", snap |-> <<>>, i |-> 0, expired |-> <<>>, cur |-> 0, n |-> n]
NoLoop == [pc |-> "none", p1 |-> NoUser, p2 |-> NoUser]

\* history records: how often the sweep settled a challenge, what went to the house
\* and to the players, and whether the challenge had been accepted; how often a
\* move paid a challenge, and what it changed for the winner (or the player of a
\* game against the bot), the loser and the house; of a blackjack round: the
\* balances before the bet, the game as it was settled, whether the engine has
\* accepted a hit, stand, double or split (acted), a split of aces, a surrender or
\* an insurance after that, how often it accepted insurance, and what the
\* handlers took from the balance for requests the engine rejected (lost)
NoTick == [n |-> 0, house |-> 0, refund |-> 0, accepted |-> FALSE]
NoMove == [n |-> 0, player |-> 0, other |-> 0, house |-> 0, won |-> FALSE]
NoGame == [active |-> FALSE]
NoRounds == [rounds |-> 0, bal0 |-> 0, house0 |-> 0, bet |-> 0, natural |-> FALSE,
             settled |-> 0, credit |-> 0, last |-> NoGame,
             acted |-> FALSE, aces_split |-> FALSE, late_surrender |-> FALSE,
             late_insurance |-> FALSE, ins_n |-> 0, lost |-> 0]

\* Deck._initialize_cards on an empty list: the number of cards of so many decks
InitializeCards(num_decks) == num_decks * Cardinality(RANKS) * Cardinality(SUITS)

\* Deck(num_decks): a shoe that has not dealt yet
NewDeck(num_decks) == [cards |-> InitializeCards(num_decks), before |-> 0, last |-> "new"]

Init ==
    /\ balance = InitBalance
    /\ house = HouseSeed
    /\ chal = [c \in CIDs |-> NoChallenge]
    /\ pending = <<>>
    /\ nextCid = 0
    /\ now = 0
    /\ clicked = {}
    /\ h = Idle
    /\ t = TickIdle(0)
    /\ loop = [c \in CIDs |-> NoLoop]
    /\ result = "none"
    /\ byTick = [c \in CIDs |-> NoTick]
    /\ byMove = [c \in CIDs |-> NoMove]
    /\ byAccept = [c \in CIDs |-> {}]
    /\ turnStart = [c \in CIDs |-> NoStamp]
    /\ bj = NoGame
    /\ bjHist = NoRounds
    /\ hand = <<>>
    /\ dpc = "hand"
    /\ txns = [u \in Users |-> <<>>]
    /\ shoe = NewDeck(ShoeDecks)
    /\ processed = <<>>
    /\ credited = <<>>

\* ------------------------------------------------------------------ ledger
\* db.update_user(u, {'balance': balance + d})
NoBalance == [u \in Users |-> 0]
Credit(bal, u, d) == [bal EXCEPT ![u] = @ + d]

\* _update_user_stats(user_id, wager, profit, result): balance += profit
UpdateUserStats(bal, u, profit) == [bal EXCEPT ![u] = @ + profit]

\* bound: the challenges of one run are all of one kind
OneKind(k) == nextCid = 0 \/ chal[1].kind = k

\* the V2 games created so far
V2Games == {c \in 1..nextCid : chal[c].kind \in {"v2_bot", "v2_pvp"}}

\* ------------------------------------------------------- challenge creation
\* create_emoji_pvp_challenge: the emoji PvP duel ("<game>_player_open_<wager>")
CreateEmojiPvp(u, w, owned) ==
    /\ h.pc = "idle"
    /\ nextCid < MaxChallenges
    /\ OneKind("pvp")
    /\ IF w > balance[u]
       THEN /\ result' = "InsufficientFunds"
            /\ UNCHANGED <<balance, chal, pending, nextCid>>
       ELSE /\ balance' = Credit(balance, u, -w)
            /\ nextCid' = nextCid + 1
            /\ chal' = [chal EXCEPT ![nextCid + 1] =
                          [NoChallenge EXCEPT !.kind = "pvp", !.challenger = u,
                                              !.owner = IF owned THEN u ELSE NoUser,
                                              !.wager = w, !.created_at = now]]
            /\ pending' = Append(pending, nextCid + 1)
            /\ result' = "Created"
    /\ UNCHANGED <<house, now, clicked, h, t, loop, byTick, byMove, byAccept, turnStart, bjVars, cardVars, logVars, shoeVars, depVars>>

\* start_generic_v2_bot: a series against the bot
StartGenericV2Bot(u, w, r, m, p) ==
    /\ h.pc = "idle"
    /\ nextCid < MaxChallenges
    /\ OneKind("v2_bot")
    /\ Cardinality(V2Games) < MaxSeries
    /\ IF w > balance[u]
       THEN /\ result' = "InsufficientFunds"
            /\ UNCHANGED <<balance, chal, pending, nextCid>>
       ELSE /\ balance' = Credit(balance, u, -w)
            /\ nextCid' = nextCid + 1
            /\ chal' = [chal EXCEPT ![nextCid + 1] =
                          [NoChallenge EXCEPT !.kind = "v2_bot", !.challenger = u,
                                              !.wager = w, !.rolls = r, !.mode = m,
                                              !.pts = p, !.emoji_wait = now]]
            /\ pending' = Append(pending, nextCid + 1)
            /\ result' = "Created"
    /\ UNCHANGED <<house, now, clicked, h, t, loop, byTick, byMove, byAccept, turnStart, bjVars, cardVars, logVars, shoeVars, depVars>>

\* start_generic_v2_pvp: a series against a player, open until somebody joins
StartGenericV2Pvp(u, w, r, m, p) ==
    /\ h.pc = "idle"
    /\ nextCid < MaxChallenges
    /\ OneKind("v2_pvp")
    /\ Cardinality(V2Games) < MaxSeries
    /\ IF w > balance[u]
       THEN /\ result' = "InsufficientFunds"
            /\ UNCHANGED <<balance, chal, pending, nextCid>>
       ELSE /\ balance' = Credit(balance, u, -w)
            /\ nextCid' = nextCid + 1
            /\ chal' = [chal EXCEPT ![nextCid + 1] =
                          [NoChallenge EXCEPT !.kind = "v2_pvp", !.challenger = u,
                                              !.wager = w, !.rolls = r, !.mode = m,
                                              !.pts = p, !.emoji_wait = now]]
            /\ pending' = Append(pending, nextCid + 1)
            /\ result' = "Created"
    /\ UNCHANGED <<house, now, clicked, h, t, loop, byTick, byMove, byAccept, turnStart, bjVars, cardVars, logVars, shoeVars, depVars>>

\* ------------------------------------------------- accepting an emoji duel
\* the emoji duels created so far, whether still pending or not: what an
\* "accept_<game>_<challenge_id>" button can name
EmojiDuels == {c \in 1..nextCid : chal[c].kind = "pvp"}
V2Duels == {c \in 1..nextCid : chal[c].kind = "v2_pvp"}
Created == 1..nextCid

InPending(c) == c \in Range(pending)

\* button_callback (a button on a message that has an owner is for the owner
\* only) and accept_emoji_pvp_challenge up to its await (query.edit_message_text)
AcceptEmojiPvp(u, c) ==
    /\ h.pc = "idle"
    /\ c \in EmojiDuels
    /\ IF chal[c].owner # NoUser /\ chal[c].owner # u
       THEN /\ result' = "NotYourButton"
            /\ UNCHANGED <<balance, h, byAccept, turnStart>>
       ELSE IF ~InPending(c)
       THEN /\ result' = "ChallengeExpired"
            /\ UNCHANGED <<balance, h, byAccept, turnStart>>
       ELSE IF chal[c].created_at # NoStamp /\ now - chal[c].created_at > Timeout
       THEN /\ result' = "ChallengeExpired"
            /\ UNCHANGED <<balance, h, byAccept, turnStart>>
       ELSE IF u = chal[c].challenger
       THEN /\ result' = "OwnChallenge"
            /\ UNCHANGED <<balance, h, byAccept, turnStart>>
       ELSE IF chal[c].wager > balance[u]
       THEN /\ result' = "InsufficientFunds"
            /\ UNCHANGED <<balance, h, byAccept, turnStart>>
       ELSE /\ balance' = Credit(balance, u, -chal[c].wager)
            /\ h' = [pc |-> "accept_await", cid |-> c, user |-> u]
            /\ byAccept' = [byAccept EXCEPT ![c] = @ \cup {u}]
            /\ turnStart' = [turnStart EXCEPT ![c] = now]
            /\ result' = "Accepting"
    /\ UNCHANGED <<house, chal, pending, nextCid, now, clicked, t, loop, byTick, byMove, bjVars, cardVars, logVars, shoeVars, depVars>>

\* accept_emoji_pvp_challenge after its await: the challenge object is marked
\* and stored under its id again
AcceptEmojiPvpResume ==
    /\ h.pc = "accept_await"
    /\ chal' = [chal EXCEPT ![h.cid] =
                  [@ EXCEPT !.opponent = h.user,
                            !.waiting_for_challenger_emoji = TRUE,
                            !.waiting_for_emoji = FALSE,
                            !.emoji_wait = now]]
    /\ pending' = IF InPending(h.cid) THEN pending ELSE Append(pending, h.cid)
    /\ h' = Idle
    /\ result' = "Accepted"
    /\ UNCHANGED <<balance, house, nextCid, now, clicked, t, loop, byTick, byMove, byAccept, turnStart, bjVars, cardVars, logVars, shoeVars, depVars>>

\* ------------------------------------------------- accepting a V2 series
\* a join that is tested against the balance read before the bot's earlier awaits
AcceptGenericV2PvpStale(u, c) ==
    /\ h.pc = "idle"
    /\ c \in V2Duels
    /\ IF c \in clicked
       THEN /\ result' = "ButtonUsed"
            /\ UNCHANGED <<balance, chal, clicked, h, byAccept, turnStart>>
       ELSE /\ clicked' = clicked \cup {c}
            /\ IF ~InPending(c) \/ chal[c].challenger = u
               THEN /\ result' = "CannotJoin"
                    /\ UNCHANGED <<balance, chal, h, byAccept, turnStart>>
               ELSE IF InitBalance[u] < chal[c].wager
               THEN /\ result' = "InsufficientFunds"
                    /\ UNCHANGED <<balance, chal, h, byAccept, turnStart>>
               ELSE /\ balance' = Credit(balance, u, -chal[c].wager)
                    /\ chal' = [chal EXCEPT ![c].opponent = u]
                    /\ h' = [pc |-> "v2accept_await", cid |-> c, user |-> u]
                    /\ byAccept' = [byAccept EXCEPT ![c] = @ \cup {u}]
                    /\ turnStart' = [turnStart EXCEPT ![c] = now]
                    /\ result' = "Accepted"
    /\ UNCHANGED <<house, pending, nextCid, now, t, loop, byTick, byMove, bjVars, cardVars, logVars, shoeVars, depVars>>

\* button_callback ("v2_accept_<cid>": a button is used once) and
\* accept_generic_v2_pvp up to its await
AcceptGenericV2Pvp(u, c) ==
    /\ h.pc = "idle"
    /\ c \in V2Duels
    /\ IF c \in clicked
       THEN /\ result' = "ButtonUsed"
            /\ UNCHANGED <<balance, chal, clicked, h, byAccept, turnStart>>
       ELSE /\ clicked' = clicked \cup {c}
            /\ IF ~InPending(c) \/ chal[c].challenger = u
               THEN /\ result' = "CannotJoin"
                    /\ UNCHANGED <<balance, chal, h, byAccept, turnStart>>
               ELSE IF balance[u] < chal[c].wager
               THEN /\ result' = "InsufficientFunds"
                    /\ UNCHANGED <<balance, chal, h, byAccept, turnStart>>
               ELSE /\ balance' = Credit(balance, u, -chal[c].wager)
                    /\ chal' = [chal EXCEPT ![c].opponent = u]
                    /\ h' = [pc |-> "v2accept_await", cid |-> c, user |-> u]
                    /\ byAccept' = [byAccept EXCEPT ![c] = @ \cup {u}]
                    /\ turnStart' = [turnStart EXCEPT ![c] = now]
                    /\ result' = "Accepted"
    /\ UNCHANGED <<house, pending, nextCid, now, t, loop, byTick, byMove, bjVars, cardVars, logVars, shoeVars, depVars>>

\* accept_generic_v2_pvp after its await: asyncio.create_task(generic_v2_pvp_loop)
AcceptGenericV2PvpResume ==
    /\ h.pc = "v2accept_await"
    /\ loop' = [loop EXCEPT ![h.cid] = [pc |-> "start", p1 |-> NoUser, p2 |-> NoUser]]
    /\ h' = Idle
    /\ UNCHANGED <<balance, house, chal, pending, nextCid, now, clicked, t, result,
                   byTick, byMove, byAccept, turnStart, bjVars, cardVars, logVars, shoeVars, depVars>>

\* ------------------------------------------------------------------- moves
\* "Scoring logic" of handle_emoji_response for the dice emoji
Score(val) == val

\* a first loop that takes the emoji of either player whoever's turn it is
TakesV2AnyTurn(c, u) ==
    \/ chal[c].kind = "v2_bot" /\ chal[c].challenger = u
    \/ chal[c].kind = "v2_pvp" /\ (chal[c].challenger = u \/ chal[c].opponent = u)

\* the first loop of handle_emoji_response: does challenge c take the emoji of u
TakesV2(c, u) ==
    \/ chal[c].kind = "v2_bot" /\ chal[c].challenger = u
    \/ /\ chal[c].kind = "v2_pvp"
       /\ \/ chal[c].waiting_p1 /\ chal[c].challenger = u
          \/ chal[c].waiting_p2 /\ chal[c].opponent = u

\* the second loop: an emoji duel waiting for the emoji of u
TakesLegacy(c, u) ==
    /\ chal[c].kind = "pvp"
    /\ \/ chal[c].waiting_for_challenger_emoji /\ chal[c].challenger = u
       \/ chal[c].waiting_for_emoji /\ chal[c].opponent = u

\* the first key of the dict, in insertion order, that takes the emoji in the
\* first loop; 0 if none
RECURSIVE FirstV2(_, _)
FirstV2(s, u) ==
    IF s = <<>> THEN 0
    ELSE IF TakesV2(Head(s), u) THEN Head(s) ELSE FirstV2(Tail(s), u)

\* the same for the second loop
RECURSIVE FirstLegacy(_, _)
FirstLegacy(s, u) ==
    IF s = <<>> THEN 0
    ELSE IF TakesLegacy(Head(s), u) THEN Head(s) ELSE FirstLegacy(Tail(s), u)

\* a scoring in which the higher total wins in either mode
RoundWinnerHigher(mode, a, b) == IF a > b THEN "p1" ELSE IF b > a THEN "p2" ELSE "none"

\* the round of a series: who wins with these turn totals
RoundWinner(mode, a, b) ==
    IF mode = "normal"
    THEN (IF a > b THEN "p1" ELSE IF b > a THEN "p2" ELSE "none")
    ELSE (IF a < b THEN "p1" ELSE IF b < a THEN "p2" ELSE "none")

\* handle_emoji_response, "Generic V2 Bot", up to the bot's rolls
EmojiV2Bot(u, val) ==
    LET c == FirstV2(pending, u) IN
    /\ h.pc = "idle"
    /\ c # 0
    /\ chal[c].kind = "v2_bot"
    /\ chal' = [chal EXCEPT ![c] =
                  [@ EXCEPT !.p1_rolls = LastN(Append(@, Score(val)), chal[c].rolls),
                            !.cur_rolls = @ + 1]]
    /\ IF chal[c].cur_rolls + 1 < chal[c].rolls
       THEN /\ result' = "Recorded"
            /\ h' = h
       ELSE /\ result' = "BotRolling"
            /\ h' = [pc |-> "v2bot_rolling", cid |-> c, user |-> u]
    /\ UNCHANGED <<balance, house, pending, nextCid, now, clicked, t, loop, byTick, byMove, byAccept, turnStart, bjVars, cardVars, logVars, shoeVars, depVars>>

\* the totals the bot can roll with n dice
BotTotals(n) == {SumSeq(s) : s \in [1..n -> Vals]}

BotRange == UNION {BotTotals(g[1]) : g \in Configs}

\* handle_emoji_response, "Generic V2 Bot", after the bot's rolls: the round is
\* scored and, when a side has reached the target, the series is paid
EmojiV2BotRound(b_tot) ==
    LET c == h.cid
        ch == chal[c]
        p_tot == SumSeq(LastN(ch.p1_rolls, ch.rolls))
        win == RoundWinner(ch.mode, p_tot, b_tot)
        p_pts == ch.p1_pts + (IF win = "p1" THEN 1 ELSE 0)
        b_pts == ch.p2_pts + (IF win = "p2" THEN 1 ELSE 0)
    IN
    /\ h.pc = "v2bot_rolling"
    /\ b_tot \in BotTotals(ch.rolls)
    /\ chal' = [chal EXCEPT ![c] = [@ EXCEPT !.p1_pts = p_pts, !.p2_pts = b_pts,
                                             !.cur_rolls = 0, !.emoji_wait = now]]
    /\ IF p_pts >= ch.pts
       THEN /\ balance' = Credit(balance, h.user, 2 * ch.wager)
            /\ house' = house - ch.wager
            /\ h' = [h EXCEPT !.pc = "v2bot_won"]
            /\ byMove' = [byMove EXCEPT ![c] = [@ EXCEPT !.n = @ + 1, !.won = TRUE,
                                                         !.player = @ + 2 * ch.wager,
                                                         !.house = @ - ch.wager]]
            /\ result' = "Winner"
       ELSE IF b_pts >= ch.pts
       THEN /\ house' = house + ch.wager
            /\ h' = [h EXCEPT !.pc = "v2bot_lost"]
            /\ byMove' = [byMove EXCEPT ![c] = [@ EXCEPT !.n = @ + 1, !.won = FALSE,
                                                         !.house = @ + ch.wager]]
            /\ result' = "Defeat"
            /\ UNCHANGED balance
       ELSE /\ h' = Idle
            /\ result' = "NextRound"
            /\ UNCHANGED <<balance, house, byMove>>
    /\ UNCHANGED <<pending, nextCid, now, clicked, t, loop, byTick, byAccept, turnStart, bjVars, cardVars, logVars, shoeVars, depVars>>

\* handle_emoji_response, "Generic V2 Bot", after the WINNER/DEFEAT message:
\* _update_user_stats and del self.pending_pvp[cid]
EmojiV2BotFinish ==
    LET c == h.cid
        profit == IF h.pc = "v2bot_won" THEN chal[c].wager ELSE -chal[c].wager IN
    /\ h.pc \in {"v2bot_won", "v2bot_lost"}
    /\ balance' = UpdateUserStats(balance, h.user, profit)
    /\ byMove' = [byMove EXCEPT ![c].player = @ + profit]
    /\ pending' = RemoveKey(pending, c)
    /\ result' = IF InPending(c) THEN "Finished" ELSE "KeyError"
    /\ h' = Idle
    /\ UNCHANGED <<house, chal, nextCid, now, clicked, t, loop, byTick, byAccept, turnStart, bjVars, cardVars, logVars, shoeVars, depVars>>

\* handle_emoji_response, "Generic V2 PvP": the roll of the side whose turn it is
EmojiV2Pvp(u, val) ==
    LET c == FirstV2(pending, u)
        ch == chal[c] IN
    /\ h.pc = "idle"
    /\ c # 0
    /\ ch.kind = "v2_pvp"
    /\ IF ch.waiting_p1 /\ ch.challenger = u
       THEN LET rolls1 == Append(ch.p1_rolls, Score(val))
                full == Len(rolls1) >= ch.rolls IN
            chal' = [chal EXCEPT ![c] =
                       [@ EXCEPT !.p1_rolls = rolls1,
                                 !.waiting_p1 = IF full THEN FALSE ELSE @,
                                 !.waiting_p2 = IF full THEN TRUE ELSE @,
                                 !.emoji_wait = now]]
       ELSE LET rolls2 == Append(ch.p2_rolls, Score(val))
                full == Len(rolls2) >= ch.rolls IN
            chal' = [chal EXCEPT ![c] =
                       [@ EXCEPT !.p2_rolls = rolls2,
                                 !.waiting_p2 = IF full THEN FALSE ELSE @,
                                 !.emoji_wait = now]]
    /\ turnStart' = IF Len(IF ch.waiting_p1 /\ ch.challenger = u
                           THEN ch.p1_rolls ELSE ch.p2_rolls) + 1 >= ch.rolls
                    THEN [turnStart EXCEPT ![c] = now]
                    ELSE turnStart
    /\ result' = "Recorded"
    /\ UNCHANGED <<balance, house, pending, nextCid, now, clicked, h, t, loop, byTick, byMove, byAccept, bjVars, cardVars, logVars, shoeVars, depVars>>

\* handle_emoji_response for an emoji duel: the value of the emoji is read from
\* roll_value, a name the function never binds, so the handler raises NameError
\* after its asyncio.sleep(3) and nothing is stored
\* (NameError); an emoji that no pending challenge takes is logged and dropped,
\* the sender gets no answer (NoMatch)
EmojiLegacy(u, val) ==
    /\ h.pc = "idle"
    /\ FirstV2(pending, u) = 0
    /\ result' = IF FirstLegacy(pending, u) # 0 THEN "NameError" ELSE "NoMatch"
    /\ result' # result
    /\ UNCHANGED <<balance, house, chal, pending, nextCid, now, clicked, h, t, loop,
                   byTick, byMove, byAccept, turnStart, bjVars, cardVars, logVars, shoeVars, depVars>>

\* ------------------------------------------------------------------ cancel
\* button_callback, "decline_<challenge_id>", up to its await
Cancel(u, c) ==
    /\ h.pc = "idle"
    /\ c \in Created
    /\ IF InPending(c) /\ chal[c].kind = "v2_bot"
       THEN /\ result' = "Error"      \* KeyError: 'challenger'
            /\ h' = h
       ELSE IF InPending(c) /\ chal[c].challenger = u
       THEN /\ result' = "Canceling"
            /\ h' = [pc |-> "cancel_await", cid |-> c, user |-> u]
       ELSE /\ result' = "NotChallenger"
            /\ h' = h
    /\ result' # result \/ h' # h
    /\ UNCHANGED <<balance, house, chal, pending, nextCid, now, clicked, t, loop,
                   byTick, byMove, byAccept, turnStart, bjVars, cardVars, logVars, shoeVars, depVars>>

\* button_callback, "decline_", after its await: del self.pending_pvp[challenge_id]
CancelResume ==
    /\ h.pc = "cancel_await"
    /\ pending' = RemoveKey(pending, h.cid)
    /\ result' = IF InPending(h.cid) THEN "Canceled" ELSE "Error"
    /\ h' = Idle
    /\ UNCHANGED <<balance, house, chal, nextCid, now, clicked, t, loop, byTick, byMove, byAccept, turnStart, bjVars, cardVars, logVars, shoeVars, depVars>>

\* --------------------------------------------------- generic_v2_pvp_loop
\* the task starts: it looks its challenge up and announces the first round
LoopStart(c) ==
    /\ loop[c].pc = "start"
    /\ IF ~InPending(c)
       THEN loop' = [loop EXCEPT ![c].pc = "done"]
       ELSE loop' = [loop EXCEPT ![c] = [pc |-> "round_start",
                                         p1 |-> chal[c].challenger,
                                         p2 |-> chal[c].opponent]]
    /\ UNCHANGED <<balance, house, chal, pending, nextCid, now, clicked, h, t, result,
                   byTick, byMove, byAccept, turnStart, bjVars, cardVars, logVars, shoeVars, depVars>>

\* after the "Round Start!" message: the turn values are reset, the challenger is
\* asked to send, the task goes to sleep
LoopRoundStart(c) ==
    /\ loop[c].pc = "round_start"
    /\ chal' = [chal EXCEPT ![c] = [@ EXCEPT !.p1_rolls = <<>>, !.p2_rolls = <<>>,
                                             !.waiting_p1 = TRUE, !.waiting_p2 = FALSE,
                                             !.emoji_wait = now]]
    /\ loop' = [loop EXCEPT ![c].pc = "poll"]
    /\ UNCHANGED <<balance, house, pending, nextCid, now, clicked, h, t, result,
                   byTick, byMove, byAccept, turnStart, bjVars, cardVars, logVars, shoeVars, depVars>>

RoundComplete(ch) == Len(ch.p1_rolls) >= ch.rolls /\ Len(ch.p2_rolls) >= ch.rolls

\* the task wakes from asyncio.sleep(2): it gives up when the challenge is gone,
\* sleeps again while a side has rolls to send, and scores the round otherwise
LoopPoll(c) ==
    LET ch == chal[c]
        win == RoundWinner(ch.mode, SumSeq(ch.p1_rolls), SumSeq(ch.p2_rolls))
        p1_pts == ch.p1_pts + (IF win = "p1" THEN 1 ELSE 0)
        p2_pts == ch.p2_pts + (IF win = "p2" THEN 1 ELSE 0)
    IN
    /\ loop[c].pc = "poll"
    /\ IF ~InPending(c)
       THEN /\ loop' = [loop EXCEPT ![c].pc = "done"]
            /\ UNCHANGED chal
       ELSE /\ RoundComplete(ch)
            /\ chal' = [chal EXCEPT ![c] = [@ EXCEPT !.p1_pts = p1_pts, !.p2_pts = p2_pts]]
            /\ loop' = [loop EXCEPT ![c].pc =
                          IF p1_pts < ch.pts /\ p2_pts < ch.pts THEN "round_start" ELSE "pay"]
    /\ UNCHANGED <<balance, house, pending, nextCid, now, clicked, h, t, result,
                   byTick, byMove, byAccept, turnStart, bjVars, cardVars, logVars, shoeVars, depVars>>

\* the series is over: the winner is credited both stakes, then the statistics of
\* both players are updated
LoopPay(c) ==
    LET ch == chal[c]
        winner == IF ch.p1_pts >= ch.pts THEN loop[c].p1 ELSE loop[c].p2
        loser == IF winner = loop[c].p1 THEN loop[c].p2 ELSE loop[c].p1
    IN
    /\ loop[c].pc = "pay"
    /\ balance' = UpdateUserStats(
                     UpdateUserStats(Credit(balance, winner, 2 * ch.wager), winner, ch.wager),
                     loser, -ch.wager)
    /\ byMove' = [byMove EXCEPT ![c] = [@ EXCEPT !.n = @ + 1, !.won = TRUE,
                                                 !.player = @ + balance'[winner] - balance[winner],
                                                 !.other = @ + balance'[loser] - balance[loser]]]
    /\ loop' = [loop EXCEPT ![c].pc = "paid"]
    /\ UNCHANGED <<house, chal, pending, nextCid, now, clicked, h, t, result, byTick,
                   byAccept, turnStart, bjVars, cardVars, logVars, shoeVars, depVars>>

\* after the "won the series" message: del self.pending_pvp[cid]
LoopFinish(c) ==
    /\ loop[c].pc = "paid"
    /\ pending' = RemoveKey(pending, c)
    /\ loop' = [loop EXCEPT ![c].pc = "done"]
    /\ UNCHANGED <<balance, house, chal, nextCid, now, clicked, h, t, result,
                   byTick, byMove, byAccept, turnStart, bjVars, cardVars, logVars, shoeVars, depVars>>

\* ------------------------------------------------ check_expired_challenges
\* whether the sweep, started at time cur, appends this challenge to
\* expired_challenges
TickExpired(ch, cur) ==
    IF ch.kind \in {"v2_bot", "v2_pvp"}
    THEN ch.emoji_wait # NoStamp /\ cur - ch.emoji_wait > Timeout
    ELSE IF ch.created_at # NoStamp /\ ch.opponent = NoUser
    THEN cur - ch.created_at > Timeout
    ELSE IF ch.waiting_for_challenger_emoji /\ ch.emoji_wait # NoStamp
    THEN cur - ch.emoji_wait > Timeout
    ELSE IF ch.waiting_for_emoji /\ ch.emoji_wait # NoStamp
    THEN cur - ch.emoji_wait > Timeout
    ELSE FALSE

\* the balances after the sweep has settled an expired challenge
TickBalance(bal, ch) ==
    IF ch.kind = "v2_bot" THEN Credit(bal, ch.challenger, ch.wager)
    ELSE IF ch.kind = "v2_pvp"
    THEN (IF ch.opponent # NoUser
          THEN Credit(Credit(bal, ch.challenger, ch.wager), ch.opponent, ch.wager)
          ELSE Credit(bal, ch.challenger, ch.wager))
    ELSE IF ch.created_at # NoStamp /\ ch.opponent = NoUser
    THEN Credit(bal, ch.challenger, ch.wager)
    ELSE IF ch.waiting_for_challenger_emoji /\ ch.emoji_wait # NoStamp
    THEN Credit(bal, ch.opponent, ch.wager)
    ELSE IF ch.waiting_for_emoji /\ ch.emoji_wait # NoStamp /\ ch.opponent # NoUser
    THEN Credit(bal, ch.challenger, ch.wager)
    ELSE bal

\* the house balance after the sweep has settled an expired challenge
TickHouse(hs, ch) ==
    IF ch.kind \in {"v2_bot", "v2_pvp"} THEN hs
    ELSE IF ch.created_at # NoStamp /\ ch.opponent = NoUser THEN hs
    ELSE IF ch.waiting_for_challenger_emoji /\ ch.emoji_wait # NoStamp THEN hs + ch.wager
    ELSE IF ch.waiting_for_emoji /\ ch.emoji_wait # NoStamp /\ ch.opponent # NoUser
    THEN hs + ch.wager
    ELSE hs

\* the next entry of the sweep's snapshot, from index i on, that has expired
RECURSIVE NextExpired(_, _, _)
NextExpired(snap, i, cur) ==
    IF i > Len(snap) THEN i
    ELSE IF TickExpired(chal[snap[i]], cur) THEN i
    ELSE NextExpired(snap, i + 1, cur)

\* "for challenge_id in expired_challenges: del self.pending_pvp[challenge_id]":
\* a key that is gone raises KeyError, which ends the sweep
RECURSIVE DelAll(_, _)
DelAll(pend, expired) ==
    IF expired = <<>> THEN pend
    ELSE IF Head(expired) \notin Range(pend) THEN pend
    ELSE DelAll(RemoveKey(pend, Head(expired)), Tail(expired))

\* the sweep from entry i of its snapshot to its next await, or to its end
TickStep(tt, i) ==
    LET j == NextExpired(tt.snap, i, tt.cur) IN
    IF j <= Len(tt.snap)
    THEN /\ balance' = TickBalance(balance, chal[tt.snap[j]])
         /\ house' = TickHouse(house, chal[tt.snap[j]])
         /\ byTick' = [byTick EXCEPT ![tt.snap[j]] =
                         [n |-> @.n + 1,
                          house |-> @.house + TickHouse(0, chal[tt.snap[j]]),
                          refund |-> @.refund + SumOver(TickBalance(NoBalance, chal[tt.snap[j]])),
                          accepted |-> chal[tt.snap[j]].kind = "v2_bot"
                                         \/ chal[tt.snap[j]].opponent # NoUser]]
         /\ t' = [tt EXCEPT !.pc = "await", !.i = j, !.expired = Append(@, tt.snap[j])]
         /\ UNCHANGED pending
    ELSE /\ pending' = DelAll(pending, tt.expired)
         /\ t' = TickIdle(tt.n)
         /\ UNCHANGED <<balance, house, byTick, byAccept, turnStart>>

\* the job starts (every 5 seconds; a sweep that finds nothing expired changes
\* nothing and is left out)
TickBegin ==
    /\ t.pc = "idle"
    /\ t.n < MaxSweeps
    /\ NextExpired(pending, 1, now) <= Len(pending)
    /\ TickStep([pc |-> "idle", snap |-> pending, i |-> 0, expired |-> <<>>,
                 cur |-> now, n |-> t.n + 1], 1)
    /\ UNCHANGED <<chal, nextCid, now, clicked, h, loop, result, byMove, byAccept, turnStart, bjVars, cardVars, logVars, shoeVars, depVars>>

\* the expiry message has been sent
TickResume ==
    /\ t.pc = "await"
    /\ TickStep(t, t.i + 1)
    /\ UNCHANGED <<chal, nextCid, now, clicked, h, loop, result, byMove, byAccept, turnStart, bjVars, cardVars, logVars, shoeVars, depVars>>

\* the expiry message of a V2 series could not be sent: the exception leaves the
\* loop and check_expired_challenges logs it
TickSendFails ==
    /\ t.pc = "await"
    /\ chal[t.snap[t.i]].kind \in {"v2_bot", "v2_pvp"}
    /\ t' = TickIdle(t.n)
    /\ UNCHANGED <<balance, house, chal, pending, nextCid, now, clicked, h, loop, result,
                   byTick, byMove, byAccept, turnStart, bjVars, cardVars, logVars, shoeVars, depVars>>

\* ================================================================ blackjack
\* RANKS: the value of a card
RankValue(r) ==
    CASE r = "A" -> 11 [] r = "T" -> 10 [] r = "9" -> 9 [] r = "8" -> 8 [] r = "7" -> 7
      [] r = "6" -> 6 [] r = "5" -> 5 [] r = "4" -> 4 [] r = "3" -> 3 [] r = "2" -> 2

RECURSIVE RawValue(_)
RawValue(cards) == IF cards = <<>> THEN 0 ELSE RankValue(Head(cards)) + RawValue(Tail(cards))

NumAces(cards) == Len(SelectSeq(cards, LAMBDA r : r = "A"))

\* "while value > 21 and num_aces > 0": <<value, num_aces>> after the loop
RECURSIVE AdjustAces(_, _)
AdjustAces(value, num_aces) ==
    IF value > 21 /\ num_aces > 0 THEN AdjustAces(value - 10, num_aces - 1)
    ELSE <<value, num_aces>>

\* Hand._calculate_value: the value of a hand and whether it is soft
HandValue(cards) == AdjustAces(RawValue(cards), NumAces(cards))[1]
HandSoft(cards) ==
    LET a == AdjustAces(RawValue(cards), NumAces(cards)) IN
    a[2] > 0 /\ a[1] <= 21 /\ RawValue(cards) > a[1]

IsBlackjack(cards, is_split) == Len(cards) = 2 /\ HandValue(cards) = 21 /\ ~is_split
IsBusted(cards) == HandValue(cards) > 21

NoActions == [can_split |-> FALSE, can_double |-> FALSE, can_surrender |-> FALSE]

NewHand(cards, is_split, bet, actions) ==
    [cards |-> cards, is_split |-> is_split, bet |-> bet, status |-> "Playing",
     actions |-> actions, has_payout |-> FALSE, payout |-> 0]

\* the hand the game points at (current_hand_index counts from 0)
CurrentHand(G) == G.hands[G.current_hand_index + 1]
SetCurrent(G, hd) == [G EXCEPT !.hands[G.current_hand_index + 1] = hd]

\* BlackjackGame._check_available_actions
CheckAvailableActions(G) ==
    IF G.current_hand_index >= Len(G.hands) THEN G
    ELSE LET hd == CurrentHand(G) IN
         IF hd.status # "Playing" THEN SetCurrent(G, [hd EXCEPT !.actions = NoActions])
         ELSE IF Len(hd.cards) = 2
         THEN SetCurrent(G, [hd EXCEPT !.actions =
                  [can_double |-> TRUE,
                   can_surrender |-> G.current_hand_index = 0,
                   can_split |-> hd.cards[1] = hd.cards[2]]])
         ELSE SetCurrent(G, [hd EXCEPT !.actions = NoActions])

\* an insurance that pays even money
ResolveInsuranceEven(G) ==
    IF G.insurance_bet > 0
    THEN [G EXCEPT !.insurance_payout =
             IF IsBlackjack(G.dealer, FALSE) THEN G.insurance_bet ELSE -G.insurance_bet]
    ELSE G

\* BlackjackGame._resolve_insurance
ResolveInsurance(G) ==
    IF G.insurance_bet > 0
    THEN [G EXCEPT !.insurance_payout =
             IF IsBlackjack(G.dealer, FALSE) THEN G.insurance_bet * 2 ELSE -G.insurance_bet]
    ELSE G

\* a resolution that lets a busted hand win when the dealer busts too
HandPayoutDealerFirst(hd, dealer) ==
    IF hd.status = "Blackjack"
    THEN (IF IsBlackjack(dealer, FALSE) THEN 0 ELSE (hd.bet * 3) \div 2)
    ELSE IF IsBusted(dealer) THEN hd.bet
    ELSE IF hd.status = "Bust" THEN -hd.bet
    ELSE IF HandValue(hd.cards) > HandValue(dealer) THEN hd.bet
    ELSE IF HandValue(hd.cards) < HandValue(dealer) THEN -hd.bet
    ELSE 0

\* the payout _resolve_game gives one hand
HandPayout(hd, dealer) ==
    IF hd.status = "Blackjack"
    THEN (IF IsBlackjack(dealer, FALSE) THEN 0 ELSE (hd.bet * 3) \div 2)
    ELSE IF hd.status = "Bust" THEN -hd.bet
    ELSE IF IsBusted(dealer) THEN hd.bet
    ELSE IF HandValue(hd.cards) > HandValue(dealer) THEN hd.bet
    ELSE IF HandValue(hd.cards) < HandValue(dealer) THEN -hd.bet
    ELSE 0

\* BlackjackGame._resolve_game
ResolveGame(G) ==
    [G EXCEPT !.hands = [k \in 1..Len(G.hands) |->
        IF G.hands[k].has_payout THEN G.hands[k]
        ELSE [G.hands[k] EXCEPT !.has_payout = TRUE,
                                !.payout = HandPayout(G.hands[k], G.dealer)]]]

\* a dealer who stands on 16
DealerStandsOn16(cards) ==
    \/ HandValue(cards) < 16
    \/ HandValue(cards) = 17 /\ HandSoft(cards) /\ ~DEALER_STANDS_ON_SOFT_17

\* the dealer's loop of _dealer_turn: does the dealer take another card
DealerHits(cards) ==
    \/ HandValue(cards) < 17
    \/ HandValue(cards) = 17 /\ HandSoft(cards) /\ ~DEALER_STANDS_ON_SOFT_17

\* the hands the dealer's loop can end with, whatever the shoe deals
RECURSIVE DealerFinals(_)
DealerFinals(cards) ==
    IF ~DealerHits(cards) THEN {cards}
    ELSE IF Len(cards) >= MaxDealerCards THEN {}
    ELSE UNION {DealerFinals(Append(cards, r)) : r \in Ranks}

\* BlackjackGame._dealer_turn; d is the hand the dealer's loop ends with
DealerTurn(G, d) == ResolveGame([ResolveInsurance(G) EXCEPT !.dealer = d])

\* an _advance_hand that does not pass over a hand that is already resolved
AdvanceHandOnce(G, d) ==
    LET G1 == [G EXCEPT !.current_hand_index = @ + 1] IN
    IF G1.current_hand_index >= Len(G1.hands) THEN DealerTurn(G1, d)
    ELSE CheckAvailableActions(G1)

\* BlackjackGame._advance_hand
RECURSIVE AdvanceHand(_, _)
AdvanceHand(G, d) ==
    LET G1 == [G EXCEPT !.current_hand_index = @ + 1] IN
    IF G1.current_hand_index >= Len(G1.hands) THEN DealerTurn(G1, d)
    ELSE LET G2 == CheckAvailableActions(G1) IN
         IF CurrentHand(G2).status # "Playing" THEN AdvanceHand(G2, d) ELSE G2

IsCurrentHandActionable(G) ==
    G.current_hand_index < Len(G.hands) /\ CurrentHand(G).status = "Playing"

\* BlackjackGame.start_game: player, dealer, player, dealer
StartGame(bet, p1, d1, p2, d2) ==
    LET G == [active |-> TRUE,
              hands |-> <<NewHand(<<p1, p2>>, FALSE, bet, NoActions)>>,
              dealer |-> <<d1, d2>>,
              current_hand_index |-> 0,
              is_insurance_available |-> d1 = "A",
              insurance_bet |-> 0,
              insurance_payout |-> 0,
              initial_bet |-> bet] IN
    IF IsBlackjack(<<p1, p2>>, FALSE)
    THEN LET B == [G EXCEPT !.hands[1].status = "Blackjack"] IN
         IF d1 = "A" THEN B ELSE ResolveGame(B)
    ELSE CheckAvailableActions(G)

\* a hit that leaves the action flags of the hand as they were
HitKeepsActions(G, c, d) ==
    IF ~IsCurrentHandActionable(G) THEN G
    ELSE LET hd == [CurrentHand(G) EXCEPT !.cards = Append(@, c)] IN
         IF IsBusted(hd.cards) THEN AdvanceHand(SetCurrent(G, [hd EXCEPT !.status = "Bust"]), d)
         ELSE IF HandValue(hd.cards) = 21
         THEN AdvanceHand(SetCurrent(G, [hd EXCEPT !.status = "Stood"]), d)
         ELSE SetCurrent(G, hd)

\* BlackjackGame.hit; c is the card dealt
Hit(G, c, d) ==
    IF ~IsCurrentHandActionable(G) THEN G
    ELSE LET hd == [CurrentHand(G) EXCEPT !.cards = Append(@, c), !.actions = NoActions] IN
         IF IsBusted(hd.cards) THEN AdvanceHand(SetCurrent(G, [hd EXCEPT !.status = "Bust"]), d)
         ELSE IF HandValue(hd.cards) = 21
         THEN AdvanceHand(SetCurrent(G, [hd EXCEPT !.status = "Stood"]), d)
         ELSE SetCurrent(G, hd)

\* BlackjackGame.stand
Stand(G, d) ==
    IF ~IsCurrentHandActionable(G) THEN G
    ELSE AdvanceHand(SetCurrent(G, [CurrentHand(G) EXCEPT !.status = "Stood"]), d)

\* a double_down that asks only for a current hand that is Playing
DoubleDownAnyTime(G, c, d) ==
    IF ~IsCurrentHandActionable(G) THEN G
    ELSE LET cards == Append(CurrentHand(G).cards, c)
             hd == [CurrentHand(G) EXCEPT !.bet = @ * 2, !.cards = cards,
                       !.status = IF IsBusted(cards) THEN "Bust" ELSE "Doubled"] IN
         AdvanceHand(SetCurrent(G, hd), d)

\* BlackjackGame.double_down
DoubleDown(G, c, d) ==
    IF ~CurrentHand(G).actions.can_double THEN G
    ELSE LET cards == Append(CurrentHand(G).cards, c)
             hd == [CurrentHand(G) EXCEPT !.bet = @ * 2, !.cards = cards,
                       !.status = IF IsBusted(cards) THEN "Bust" ELSE "Doubled"] IN
         AdvanceHand(SetCurrent(G, hd), d)

\* a split that takes any current hand of two cards
SplitAnyTwo(G, c1, c2, d) ==
    IF ~(IsCurrentHandActionable(G) /\ Len(CurrentHand(G).cards) = 2) THEN G
    ELSE LET old == CurrentHand(G)
             aces == old.cards[1] = "A"
             k == G.current_hand_index + 1
             first == [old EXCEPT !.cards = <<old.cards[1], c1>>, !.is_split = TRUE,
                                  !.actions = NoActions,
                                  !.status = IF aces THEN "Stood" ELSE @]
             second == [NewHand(<<old.cards[2], c2>>, TRUE, old.bet,
                                [can_split |-> FALSE, can_double |-> TRUE,
                                 can_surrender |-> FALSE])
                          EXCEPT !.status = IF aces THEN "Stood" ELSE @]
             G1 == [G EXCEPT !.hands = SubSeq(G.hands, 1, k - 1) \o <<first, second>>
                                         \o SubSeq(G.hands, k + 1, Len(G.hands))] IN
         IF aces THEN AdvanceHand(G1, d) ELSE CheckAvailableActions(G1)

\* BlackjackGame.split; c1 and c2 are the cards dealt to the two hands
Split(G, c1, c2, d) ==
    IF ~CurrentHand(G).actions.can_split THEN G
    ELSE LET old == CurrentHand(G)
             aces == old.cards[1] = "A"
             k == G.current_hand_index + 1
             first == [old EXCEPT !.cards = <<old.cards[1], c1>>, !.is_split = TRUE,
                                  !.actions = NoActions,
                                  !.status = IF aces THEN "Stood" ELSE @]
             second == [NewHand(<<old.cards[2], c2>>, TRUE, old.bet,
                                [can_split |-> FALSE, can_double |-> TRUE,
                                 can_surrender |-> FALSE])
                          EXCEPT !.status = IF aces THEN "Stood" ELSE @]
             G1 == [G EXCEPT !.hands = SubSeq(G.hands, 1, k - 1) \o <<first, second>>
                                         \o SubSeq(G.hands, k + 1, Len(G.hands))] IN
         IF aces THEN AdvanceHand(G1, d) ELSE CheckAvailableActions(G1)

\* BlackjackGame.surrender
Surrender(G, d) ==
    IF ~CurrentHand(G).actions.can_surrender THEN G
    ELSE LET hd == [CurrentHand(G) EXCEPT !.payout = -(CurrentHand(G).bet \div 2),
                                          !.has_payout = TRUE,
                                          !.status = "Surrendered",
                                          !.actions = NoActions] IN
         AdvanceHand([SetCurrent(G, hd) EXCEPT !.current_hand_index = Len(G.hands) - 1], d)

\* BlackjackGame.take_insurance
TakeInsurance(G) ==
    IF ~G.is_insurance_available THEN G
    ELSE [G EXCEPT !.insurance_bet = G.initial_bet \div 2, !.is_insurance_available = FALSE]

\* "current_hand_state = self.player_hands[self.current_hand_index]", the first
\* statement of double_down, split and surrender: IndexError when the index has
\* passed the last hand
RaisesIndexError(G) == G.current_hand_index >= Len(G.hands)

\* get_game_state()['game_over'] and ['total_payout']
GameOver(G) == G.current_hand_index >= Len(G.hands)
SumBets(G) == SumSeq([k \in 1..Len(G.hands) |-> G.hands[k].bet])
TotalPayout(G) ==
    SumSeq([k \in 1..Len(G.hands) |-> IF G.hands[k].has_payout THEN G.hands[k].payout ELSE 0])
    + G.insurance_payout

\* what _display_blackjack_state adds to the balance of a finished game
Settlement(G) == TotalPayout(G) + SumBets(G) + (IF G.insurance_bet > 0 THEN G.insurance_bet ELSE 0)

\* _display_blackjack_state: a finished game is paid into the balance and its
\* session is deleted; an unfinished one is shown with its buttons
BjDisplay(G, bal, hist) ==
    IF GameOver(G)
    THEN /\ balance' = Credit(bal, BJUser, Settlement(G))
         /\ bj' = NoGame
         /\ bjHist' = [hist EXCEPT !.settled = @ + 1, !.credit = Settlement(G), !.last = G]
         /\ result' = "GameOver"
    ELSE /\ balance' = bal
         /\ bj' = G
         /\ bjHist' = hist
         /\ result' = "Shown"

\* a blackjack_command that plays for what is left when the stake is too high
BlackjackCommandAllIn(w, p1, d1, p2, d2) ==
    LET stake == IF w > balance[BJUser] THEN balance[BJUser] ELSE w IN
    /\ h.pc = "idle"
    /\ bjHist.rounds < MaxRounds
    /\ IF bj.active \/ stake <= MinAmount
       THEN /\ result' = "Rejected"
            /\ UNCHANGED <<balance, bj, bjHist>>
       ELSE BjDisplay(StartGame(stake, p1, d1, p2, d2), Credit(balance, BJUser, -stake),
                      [bjHist EXCEPT !.rounds = @ + 1, !.bal0 = balance[BJUser],
                                     !.house0 = house, !.bet = stake])
    /\ UNCHANGED <<house, chVars, cardVars, logVars, shoeVars, depVars>>

\* blackjack_command: /blackjack <amount>
BlackjackCommand(w, p1, d1, p2, d2) ==
    /\ bjHist.rounds < MaxRounds
    /\ h.pc = "idle"
    /\ IF bj.active
       THEN /\ result' = "ActiveGame"
            /\ UNCHANGED <<balance, bj, bjHist>>
       ELSE IF w <= MinAmount
       THEN /\ result' = "Min"
            /\ UNCHANGED <<balance, bj, bjHist>>
       ELSE IF w > balance[BJUser]
       THEN /\ result' = "InsufficientFunds"
            /\ UNCHANGED <<balance, bj, bjHist>>
       ELSE BjDisplay(StartGame(w, p1, d1, p2, d2), Credit(balance, BJUser, -w),
                      [bjHist EXCEPT !.rounds = @ + 1, !.bal0 = balance[BJUser],
                                     !.house0 = house, !.bet = w,
                                     !.natural = IsBlackjack(<<p1, p2>>, FALSE) /\ d1 # "A",
                                     !.acted = FALSE, !.aces_split = FALSE,
                                     !.late_surrender = FALSE, !.late_insurance = FALSE,
                                     !.ins_n = 0, !.lost = 0])
    /\ UNCHANGED <<house, chVars, cardVars, logVars, shoeVars, depVars>>

\* button_callback, "bj_<user>_hit"
BjHit(c, d) ==
    /\ h.pc = "idle"
    /\ bj.active => Len(CurrentHand(bj).cards) < MaxCards
    /\ IF ~bj.active
       THEN /\ result' = "SessionExpired"
            /\ UNCHANGED <<balance, bj, bjHist>>
       ELSE BjDisplay(Hit(bj, c, d), balance,
                      [bjHist EXCEPT !.acted = @ \/ IsCurrentHandActionable(bj)])
    /\ UNCHANGED <<house, chVars, cardVars, logVars, shoeVars, depVars>>

\* button_callback, "bj_<user>_stand"
BjStand(d) ==
    /\ h.pc = "idle"
    /\ IF ~bj.active
       THEN /\ result' = "SessionExpired"
            /\ UNCHANGED <<balance, bj, bjHist>>
       ELSE BjDisplay(Stand(bj, d), balance,
                      [bjHist EXCEPT !.acted = @ \/ IsCurrentHandActionable(bj)])
    /\ UNCHANGED <<house, chVars, cardVars, logVars, shoeVars, depVars>>

\* button_callback, "bj_<user>_double": the stake is taken before double_down
BjDouble(c, d) ==
    /\ h.pc = "idle"
    /\ IF ~bj.active
       THEN /\ result' = "SessionExpired"
            /\ UNCHANGED <<balance, bj, bjHist>>
       ELSE IF balance[BJUser] < CurrentHand(bj).bet
       THEN /\ result' = "InsufficientFunds"
            /\ UNCHANGED <<balance, bj, bjHist>>
       ELSE BjDisplay(DoubleDown(bj, c, d), Credit(balance, BJUser, -CurrentHand(bj).bet),
                      [bjHist EXCEPT !.acted = @ \/ CurrentHand(bj).actions.can_double,
                                     !.lost = @ + (IF CurrentHand(bj).actions.can_double
                                                   THEN 0 ELSE CurrentHand(bj).bet)])
    /\ UNCHANGED <<house, chVars, cardVars, logVars, shoeVars, depVars>>

\* button_callback, "bj_<user>_split": the stake is taken before split
BjSplit(c1, c2, d) ==
    /\ h.pc = "idle"
    /\ IF ~bj.active
       THEN /\ result' = "SessionExpired"
            /\ UNCHANGED <<balance, bj, bjHist>>
       ELSE IF balance[BJUser] < CurrentHand(bj).bet
       THEN /\ result' = "InsufficientFunds"
            /\ UNCHANGED <<balance, bj, bjHist>>
       ELSE BjDisplay(Split(bj, c1, c2, d), Credit(balance, BJUser, -CurrentHand(bj).bet),
                      [bjHist EXCEPT !.acted = @ \/ CurrentHand(bj).actions.can_split,
                                     !.aces_split = @ \/ (CurrentHand(bj).actions.can_split
                                                           /\ CurrentHand(bj).cards[1] = "A"),
                                     !.lost = @ + (IF CurrentHand(bj).actions.can_split
                                                   THEN 0 ELSE CurrentHand(bj).bet)])
    /\ UNCHANGED <<house, chVars, cardVars, logVars, shoeVars, depVars>>

\* button_callback, "bj_<user>_surrender"
BjSurrender(d) ==
    /\ h.pc = "idle"
    /\ IF ~bj.active
       THEN /\ result' = "SessionExpired"
            /\ UNCHANGED <<balance, bj, bjHist>>
       ELSE BjDisplay(Surrender(bj, d), balance,
                      [bjHist EXCEPT !.late_surrender =
                                         @ \/ (CurrentHand(bj).actions.can_surrender
                                                /\ bjHist.acted)])
    /\ UNCHANGED <<house, chVars, cardVars, logVars, shoeVars, depVars>>

\* button_callback, "bj_<user>_insurance": the cost is taken before take_insurance
BjInsurance ==
    /\ h.pc = "idle"
    /\ IF ~bj.active
       THEN /\ result' = "SessionExpired"
            /\ UNCHANGED <<balance, bj, bjHist>>
       ELSE IF balance[BJUser] < bj.initial_bet \div 2
       THEN /\ result' = "InsufficientFunds"
            /\ UNCHANGED <<balance, bj, bjHist>>
       ELSE BjDisplay(TakeInsurance(bj), Credit(balance, BJUser, -(bj.initial_bet \div 2)),
                      [bjHist EXCEPT !.ins_n = @ + (IF bj.is_insurance_available THEN 1 ELSE 0),
                                     !.late_insurance = @ \/ (bj.is_insurance_available
                                                               /\ bjHist.acted),
                                     !.lost = @ + (IF bj.is_insurance_available
                                                   THEN 0 ELSE bj.initial_bet \div 2)])
    /\ UNCHANGED <<house, chVars, cardVars, logVars, shoeVars, depVars>>

\* the hands the dealer can end with in the game being played
Finals == IF bj.active THEN DealerFinals(bj.dealer) ELSE {<<>>}

\* ---------------------------------------------------------------- the clock
Advance(d) ==
    /\ h.pc = "idle"
    /\ t.pc = "idle"
    /\ \A c \in CIDs : loop[c].pc \in {"none", "poll", "done"}
    /\ now + d <= MaxTime
    /\ now' = now + d
    /\ UNCHANGED <<balance, house, chal, pending, nextCid, clicked, h, t, loop,
                   result, byTick, byMove, byAccept, turnStart, bjVars, cardVars, logVars, shoeVars, depVars>>

Next ==
    \/ \E u \in Users, w \in Wagers, owned \in BOOLEAN : CreateEmojiPvp(u, w, owned)
    \/ \E u \in Users, w \in Wagers, g \in Configs : StartGenericV2Bot(u, w, g[1], g[2], g[3])
    \/ \E u \in Users, w \in Wagers, g \in Configs : StartGenericV2Pvp(u, w, g[1], g[2], g[3])
    \/ \E u \in Users, c \in CIDs : AcceptEmojiPvp(u, c)
    \/ AcceptEmojiPvpResume
    \/ \E u \in Users, c \in CIDs : AcceptGenericV2Pvp(u, c)
    \/ AcceptGenericV2PvpResume
    \/ \E u \in Users, v \in Vals : EmojiV2Bot(u, v)
    \/ \E b \in BotRange : EmojiV2BotRound(b)
    \/ EmojiV2BotFinish
    \/ \E u \in Users, v \in Vals : EmojiV2Pvp(u, v)
    \/ \E u \in Users, v \in Vals : EmojiLegacy(u, v)
    \/ \E u \in Users, c \in CIDs : Cancel(u, c)
    \/ CancelResume
    \/ \E c \in CIDs : LoopStart(c)
    \/ \E c \in CIDs : LoopRoundStart(c)
    \/ \E c \in CIDs : LoopPoll(c)
    \/ \E c \in CIDs : LoopPay(c)
    \/ \E c \in CIDs : LoopFinish(c)
    \/ TickBegin
    \/ TickResume
    \/ TickSendFails
    \/ \E d \in Deltas : Advance(d)

Spec == Init /\ [][Next]_vars

\* ------------------------------------------------------ the blackjack table
InitBJ ==
    /\ balance = [u \in Users |-> BJBalance]
    /\ house = HouseSeed
    /\ chal = [c \in CIDs |-> NoChallenge]
    /\ pending = <<>>
    /\ nextCid = 0
    /\ now = 0
    /\ clicked = {}
    /\ h = Idle
    /\ t = TickIdle(0)
    /\ loop = [c \in CIDs |-> NoLoop]
    /\ result = "none"
    /\ byTick = [c \in CIDs |-> NoTick]
    /\ byMove = [c \in CIDs |-> NoMove]
    /\ byAccept = [c \in CIDs |-> {}]
    /\ turnStart = [c \in CIDs |-> NoStamp]
    /\ bj = NoGame
    /\ bjHist = NoRounds
    /\ hand = <<>>
    /\ dpc = "hand"
    /\ txns = [u \in Users |-> <<>>]
    /\ shoe = NewDeck(ShoeDecks)
    /\ processed = <<>>
    /\ credited = <<>>

NextBJ ==
    \/ \E w \in Bets, p1 \in PlayerRanks, d1 \in Ranks, p2 \in PlayerRanks, d2 \in Ranks :
          BlackjackCommand(w, p1, d1, p2, d2)
    \/ \E c \in PlayerRanks, d \in Finals : BjHit(c, d)
    \/ \E d \in Finals : BjStand(d)
    \/ \E c \in PlayerRanks, d \in Finals : BjDouble(c, d)
    \/ \E c1 \in PlayerRanks, c2 \in PlayerRanks, d \in Finals : BjSplit(c1, c2, d)
    \/ \E d \in Finals : BjSurrender(d)
    \/ BjInsurance

SpecBJ == InitBJ /\ [][NextBJ]_vars

\* ------------------------------------------------- one hand, card by card
\* the ranks of RANKS by value ("T" stands for T, J, Q and K)
AllRanks == {"A", "2", "3", "4", "5", "6", "7", "8", "9", "T"}
MaxHandCards == 3      \* the cards add_card is followed for

\* Hand.add_card: the card is appended, value and soft are computed again
AddCard(r) ==
    /\ dpc = "hand"
    /\ Len(hand) < MaxHandCards
    /\ hand' = Append(hand, r)
    /\ UNCHANGED <<dpc, balance, house, result, chVars, bjVars, logVars, shoeVars, depVars>>

\* _dealer_turn is entered: the hand is the dealer's, who holds two cards
DealerBegin ==
    /\ dpc = "hand"
    /\ Len(hand) = 2
    /\ dpc' = "dealer"
    /\ UNCHANGED <<hand, balance, house, result, chVars, bjVars, logVars, shoeVars, depVars>>

\* one pass of the loop of _dealer_turn that deals a card; a bust leaves the loop
DealerDraw(r) ==
    /\ dpc = "dealer"
    /\ DealerHits(hand)
    /\ hand' = Append(hand, r)
    /\ dpc' = IF IsBusted(hand') THEN "done" ELSE "dealer"
    /\ UNCHANGED <<balance, house, result, chVars, bjVars, logVars, shoeVars, depVars>>

\* the pass of the loop that reaches "else: break"
DealerStop ==
    /\ dpc = "dealer"
    /\ ~DealerHits(hand)
    /\ dpc' = "done"
    /\ UNCHANGED <<hand, balance, house, result, chVars, bjVars, logVars, shoeVars, depVars>>

NextCards ==
    \/ \E r \in AllRanks : AddCard(r)
    \/ DealerBegin
    \/ \E r \in AllRanks : DealerDraw(r)
    \/ DealerStop

SpecCards == InitBJ /\ [][NextCards]_vars

\* -------------------------------------------------------------------- tips
MaxTips == 1           \* the tips of one run that are carried out
TipAmounts == {0, 1, 2, 4}
Stakes == {2, 4}       \* the stakes asked for where the ledger is followed

\* add_transaction: one more entry in the list of the user
AddTransaction(log, u, amount) == [log EXCEPT ![u] = Append(@, amount)]

\* the tips carried out so far: each has left one entry with the sender
TipsSent == SumOver([u \in Users |-> Len(SelectSeq(txns[u], LAMBDA x : x < 0))])

\* tip_command: /tip <amount> @user; to is the record that has the username, or
\* NoUser when no record has it
Tip(u, a, to) ==
    /\ h.pc = "idle"
    /\ TipsSent < MaxTips
    /\ IF a <= MinAmount
       THEN /\ result' = "Min"
            /\ UNCHANGED <<balance, txns>>
       ELSE IF a > balance[u]
       THEN /\ result' = "InsufficientFunds"
            /\ UNCHANGED <<balance, txns>>
       ELSE IF to = NoUser
       THEN /\ result' = "UnknownUser"
            /\ UNCHANGED <<balance, txns>>
       ELSE IF to = u
       THEN /\ result' = "SelfTip"
            /\ UNCHANGED <<balance, txns>>
       ELSE /\ balance' = Credit(Credit(balance, u, -a), to, a)
            /\ txns' = AddTransaction(AddTransaction(txns, u, -a), to, a)
            /\ result' = "Tipped"
    /\ UNCHANGED <<house, chVars, bjVars, cardVars, shoeVars, depVars>>

\* ------------------------------------------------- the ledger under requests
\* the dealer's hands of at most three cards: the shoe of these runs
ShortFinals == {d \in Finals : Len(d) <= 3}
FundsRanks == {"A", "6"}
FundsConfigs == {<<1, "normal", 1>>}

NextFunds ==
    \/ \E u \in Users, w \in Stakes : CreateEmojiPvp(u, w, FALSE)
    \/ \E u \in Users, w \in Stakes, g \in FundsConfigs : StartGenericV2Bot(u, w, g[1], g[2], g[3])
    \/ \E u \in Users, w \in Stakes, g \in FundsConfigs : StartGenericV2Pvp(u, w, g[1], g[2], g[3])
    \/ \E u \in Users, c \in CIDs : AcceptEmojiPvp(u, c)
    \/ AcceptEmojiPvpResume
    \/ \E u \in Users, c \in CIDs : AcceptGenericV2Pvp(u, c)
    \/ AcceptGenericV2PvpResume
    \/ \E w \in Stakes, p1 \in FundsRanks, d1 \in FundsRanks, p2 \in FundsRanks, d2 \in {"6"} :
          BlackjackCommand(w, p1, d1, p2, d2)
    \/ \E d \in ShortFinals : BjStand(d)
    \/ \E c \in FundsRanks, d \in ShortFinals : BjDouble(c, d)
    \/ \E c1 \in FundsRanks, c2 \in FundsRanks, d \in ShortFinals : BjSplit(c1, c2, d)
    \/ BjInsurance
    \/ \E u \in Users, a \in TipAmounts, to \in Users \cup {NoUser} : Tip(u, a, to)

SpecFunds == Init /\ [][NextFunds]_vars

\* ------------------------------------------------------- a series in play
\* the set-ups of a series that needs two points: "2 Points (Bo3)"
SeriesConfigs == {<<1, "crazy", 2>>, <<2, "normal", 2>>}

NextSeries ==
    \/ \E u \in Users, w \in Wagers, g \in SeriesConfigs : StartGenericV2Bot(u, w, g[1], g[2], g[3])
    \/ \E u \in Users, w \in Wagers, g \in SeriesConfigs : StartGenericV2Pvp(u, w, g[1], g[2], g[3])
    \/ \E u \in Users, c \in CIDs : AcceptGenericV2Pvp(u, c)
    \/ AcceptGenericV2PvpResume
    \/ \E u \in Users, v \in Vals : EmojiV2Bot(u, v)
    \/ \E b \in BotRange : EmojiV2BotRound(b)
    \/ EmojiV2BotFinish
    \/ \E u \in Users, v \in Vals : EmojiV2Pvp(u, v)
    \/ \E u \in Users, v \in Vals : EmojiLegacy(u, v)
    \/ \E c \in CIDs : LoopStart(c)
    \/ \E c \in CIDs : LoopRoundStart(c)
    \/ \E c \in CIDs : LoopPoll(c)
    \/ \E c \in CIDs : LoopPay(c)
    \/ \E c \in CIDs : LoopFinish(c)

SpecSeries == Init /\ [][NextSeries]_vars

\* ------------------------------------------------------------- the shoe
\* a deal_card that builds a new shoe only when no card is left
DealCardWhenEmpty(deck) ==
    LET rebuild == deck.cards = 0
        n == IF rebuild THEN InitializeCards(ShoeDecks) ELSE deck.cards IN
    IF n = 0 THEN [cards |-> 0, before |-> deck.cards, last |-> "IndexError"]
    ELSE [cards |-> n - 1, before |-> deck.cards,
          last |-> IF rebuild THEN "rebuilt" ELSE "dealt"]

\* Deck.deal_card: the shoe after the call; before is the number of cards the
\* call found, last what it did (pop from an empty list raises IndexError)
DealCard(deck) ==
    LET rebuild == deck.cards = 0 \/ deck.cards < ReshuffleBelow
        n == IF rebuild THEN InitializeCards(ShoeDecks) ELSE deck.cards IN
    IF n = 0 THEN [cards |-> 0, before |-> deck.cards, last |-> "IndexError"]
    ELSE [cards |-> n - 1, before |-> deck.cards,
          last |-> IF rebuild THEN "rebuilt" ELSE "dealt"]

\* one call of deal_card
ShoeDeal ==
    /\ shoe.last # "IndexError"
    /\ shoe' = DealCard(shoe)
    /\ UNCHANGED <<balance, house, result, chVars, bjVars, cardVars, logVars, depVars>>

\* a shoe of any number of decks, as the constructor builds it
InitShoe ==
    /\ shoe \in {NewDeck(n) : n \in 0..MaxDecks}
    /\ balance = InitBalance
    /\ house = HouseSeed
    /\ chal = [c \in CIDs |-> NoChallenge]
    /\ pending = <<>>
    /\ nextCid = 0
    /\ now = 0
    /\ clicked = {}
    /\ h = Idle
    /\ t = TickIdle(0)
    /\ loop = [c \in CIDs |-> NoLoop]
    /\ result = "none"
    /\ byTick = [c \in CIDs |-> NoTick]
    /\ byMove = [c \in CIDs |-> NoMove]
    /\ byAccept = [c \in CIDs |-> {}]
    /\ turnStart = [c \in CIDs |-> NoStamp]
    /\ bj = NoGame
    /\ bjHist = NoRounds
    /\ hand = <<>>
    /\ dpc = "hand"
    /\ txns = [u \in Users |-> <<>>]
    /\ processed = <<>>
    /\ credited = <<>>

NextShoe == ShoeDeal

SpecShoe == InitShoe /\ [][NextShoe]_vars

\* ------------------------------------------------------------ the deposits
\* the notifications tried: one user has a deposit address, an address may be
\* nobody's, the amount is one LTC, the confirmations are just short of the
\* required number or have reached it
DepositUsers == {NoUser, 1}
DepositAmounts == {1}
Confirmations == {RequiredConfirmations - 1, RequiredConfirmations}

\* usd_amount = amount * rate; fee = usd_amount * (percent / 100);
\* credited_amount = round(usd_amount - fee, 2), in cents for an amount in LTC
CreditedAmount(amount) ==
    LET usd_amount == amount * LtcUsdRate * 100
        fee == (usd_amount * DepositFeePercent) \div 100
    IN  usd_amount - fee

\* is_deposit_processed: "tx_id in processed"
IsDepositProcessed(tx_id) == tx_id \in Range(processed)

\* what mark_deposit_processed leaves in processed_deposits: the id appended,
\* and of more than ProcessedCap ids the last ProcessedCap
MarkDepositProcessed(tx_id) == LastN(Append(processed, tx_id), ProcessedCap)

\* the transaction ids that have been credited
CreditedIds == {credited[i].tx_id : i \in 1..Len(credited)}

\* the ids a notification can carry: one already notified and among the first
\* MaxRedelivered, or the next one never seen (ids are handed out in order)
Notifiable ==
    LET seen == Cardinality(CreditedIds)
    IN  {tx \in 1..MaxRedelivered : tx <= seen} \cup ({seen + 1} \cap TxIds)

\* handle_deposit_webhook: one POST /webhook/deposit for the address of user u
\* (NoUser: an address no user has); nothing is awaited between the test of
\* processed_deposits and the append to it
Deposit(tx_id, amount, confirmations, u) ==
    /\ IF confirmations < RequiredConfirmations
       THEN /\ result' = "pending"
            /\ UNCHANGED <<balance, txns, depVars>>
       ELSE IF u = NoUser
       THEN /\ result' = "Unknown address"
            /\ UNCHANGED <<balance, txns, depVars>>
       ELSE IF IsDepositProcessed(tx_id)
       THEN /\ result' = "Already processed"
            /\ UNCHANGED <<balance, txns, depVars>>
       ELSE /\ balance' = Credit(balance, u, CreditedAmount(amount))
            /\ txns' = AddTransaction(txns, u, CreditedAmount(amount))
            /\ processed' = MarkDepositProcessed(tx_id)
            /\ credited' = Append(credited, [tx_id |-> tx_id, user_id |-> u,
                                             confirmations |-> confirmations])
            /\ result' = "credited"
    /\ UNCHANGED <<house, chVars, bjVars, cardVars, shoeVars>>

NextDeposits ==
    \E tx_id \in Notifiable, amount \in DepositAmounts, confirmations \in Confirmations,
       u \in DepositUsers : Deposit(tx_id, amount, confirmations, u)

SpecDeposits == Init /\ [][NextDeposits]_vars

\* ================================================================== claims
\* the stakes held for the active challenges: one stake for each side that has
\* paid in (the challenger or player, and the opponent once there is one)
Sides(ch) == IF ch.kind # "v2_bot" /\ ch.opponent # NoUser THEN 2 ELSE 1
Escrow == SumSeq([k \in 1..Len(pending) |-> chal[pending[k]].wager * Sides(chal[pending[k]])])
TotalMoney == SumOver(balance) + Escrow + house
InitialMoney == SumOver(InitBalance) + HouseSeed

\* no handler, sweep or series task is between two of its steps with money in hand
Quiescent ==
    /\ h.pc = "idle"
    /\ t.pc = "idle"
    /\ \A c \in CIDs : loop[c].pc \in {"none", "start", "round_start", "poll", "done"}

\* C1: the sum of the user balances, the stakes held for active challenges and
\* the house balance is the same after any sequence of challenge operations
\* (create, accept, move, cancel, sweep)
C1_Conservation == Quiescent => TotalMoney = InitialMoney

\* C2: a challenge is settled exactly once: after a refund, a forfeit or a payout
\* it is no longer active and nothing is credited or debited for it again
C2_SettledOnce ==
    \A c \in CIDs :
        /\ byTick[c].n + byMove[c].n <= 1
        /\ (Quiescent /\ byTick[c].n + byMove[c].n = 1) => ~InPending(c)

\* C3: of two accepts of one open challenge by different users who are not the
\* challenger and can pay, exactly one succeeds; no stake is taken from the other
C3_OneAcceptor == \A c \in CIDs : Cardinality(byAccept[c]) <= 1

\* C4: a challenge the sweep has expired is never paid out by a move afterwards,
\* nor expired twice, whatever handler or task was suspended at the time
C4_ExpiredIsFinal == \A c \in CIDs : byTick[c].n > 0 => (byMove[c].n = 0 /\ byTick[c].n = 1)

\* C5: the sweep that finds a challenge nobody accepted older than 30 removes it
\* and credits the challenger exactly the stake; the house balance is unchanged
C5_OpenExpiry ==
    \A c \in CIDs :
        (byTick[c].n > 0 /\ ~byTick[c].accepted) =>
            /\ byTick[c].refund = chal[c].wager
            /\ byTick[c].house = 0
            /\ t.pc = "idle" => ~InPending(c)

\* C6: the sweep that finds an accepted challenge of any kind waiting for a move
\* for more than 30 moves the stake of the side that did not move to the house and
\* refunds the other side (a game against the bot has no other side)
C6_Forfeit ==
    \A c \in CIDs :
        (byTick[c].n = 1 /\ byTick[c].accepted) =>
            /\ byTick[c].house = chal[c].wager
            /\ byTick[c].refund = IF chal[c].kind = "v2_bot" THEN 0 ELSE chal[c].wager

\* C7: when a duel between two players has a winner, the winner is credited both
\* stakes once and nothing else moves: the winner ends one stake up, the loser one
\* stake down
C7_DuelPayout ==
    \A c \in CIDs :
        (chal[c].kind \in {"pvp", "v2_pvp"} /\ byMove[c].n = 1) =>
            /\ byMove[c].player = 2 * chal[c].wager
            /\ byMove[c].other = 0
            /\ byMove[c].house = 0

\* C8: a game against the house that the player loses leaves the player one stake
\* down and the house one stake up; one the player wins leaves the player one
\* stake up (the stake back and as much again) and the house one stake down
C8_HousePayout ==
    \A c \in CIDs :
        (chal[c].kind = "v2_bot" /\ byMove[c].n = 1 /\ h.pc = "idle") =>
            IF byMove[c].won
            THEN byMove[c].player = 2 * chal[c].wager /\ byMove[c].house = -chal[c].wager
            ELSE byMove[c].player = 0 /\ byMove[c].house = chal[c].wager

\* C9: over a blackjack round, from the bet to the settlement, what the player
\* gains the house loses and what the player loses the house gains
C9_BlackjackConservation ==
    (bjHist.settled > 0 /\ ~bj.active) =>
        (balance[BJUser] - bjHist.bal0) + (house - bjHist.house0) = 0

\* C10: a player dealt a natural 21 while the dealer's first card is not an ace is
\* settled at once: the round is over, its session is gone and the balance is the
\* one before the bet plus one and a half times the bet
C10_NaturalPaid ==
    (bjHist.rounds > 0 /\ bjHist.natural) =>
        /\ ~bj.active
        /\ balance[BJUser] = bjHist.bal0 + (3 * bjHist.bet) \div 2

\* the requests the engine accepts in a game: hit and stand on a current hand
\* that is Playing, double, split and surrender by the flags of the current hand,
\* insurance while it is available
EngineAccepts(G) ==
    \/ IsCurrentHandActionable(G)
    \/ CurrentHand(G).actions.can_double
    \/ CurrentHand(G).actions.can_split
    \/ CurrentHand(G).actions.can_surrender
    \/ G.is_insurance_available

\* C11: a round that is not over accepts at least one player action, so that it
\* can still reach the dealer's play and the payout
C11_RoundProgress == bj.active => EngineAccepts(bj)

C13_HitSoft17 ==
    (dpc = "done" /\ ~DEALER_STANDS_ON_SOFT_17
        /\ SubSeq(hand, 1, 2) \in {<<"A", "6">>, <<"6", "A">>}) => Len(hand) >= 3

\* C15: the value of a hand is the sum with every ace as 11, less 10 for one ace
\* after the other while the total exceeds 21; the hand is soft exactly when,
\* after that, an ace still counts 11 and the total is at most 21
C15_ValueAndSoft ==
    LET Low == {k \in 0..NumAces(hand) : RawValue(hand) - 10 * k <= 21}
        reduced == IF Low = {} THEN NumAces(hand)
                   ELSE CHOOSE k \in Low : \A j \in Low : k <= j
        value == RawValue(hand) - 10 * reduced
    IN
    /\ HandValue(hand) = value
    /\ HandSoft(hand) <=> (reduced < NumAces(hand) /\ value <= 21)

ResolvedGames == (IF bj.active THEN {bj} ELSE {}) \cup (IF bjHist.settled > 0 THEN {bjHist.last} ELSE {})

C18_SurrenderFirst == ~bjHist.late_surrender

\* C19: insurance is accepted at most once in a round, only against an ace
\* up-card and only before the engine has accepted a hit, stand, double or split;
\* the side bet is then half the initial bet
C19_InsuranceOnce ==
    /\ bjHist.ins_n <= 1
    /\ ~bjHist.late_insurance
    /\ \A G \in ResolvedGames :
           G.insurance_bet > 0 => (G.dealer[1] = "A" /\ 2 * G.insurance_bet = G.initial_bet)

\* C20: a double, split or insurance request that the engine rejects takes
\* nothing from the player's balance
C20_RejectedIsFree == bjHist.lost = 0

\* C21: a request to create a challenge, to accept one or to start a blackjack
\* round whose stake is above the caller's balance leaves every user balance, the
\* house balance, the active challenges and the blackjack session as they were:
\* nothing is taken, and no smaller stake is played instead
C21_OverdrawRejected ==
    [][LET Untouched == UNCHANGED <<balance, house, chal, pending, bj>> IN
       /\ \A u \in Users, w \in Stakes :
             (w > balance[u]
                /\ \/ CreateEmojiPvp(u, w, FALSE)
                   \/ \E g \in FundsConfigs : StartGenericV2Bot(u, w, g[1], g[2], g[3])
                   \/ \E g \in FundsConfigs : StartGenericV2Pvp(u, w, g[1], g[2], g[3]))
             => Untouched
       /\ \A u \in Users, c \in CIDs :
             (chal[c].wager > balance[u] /\ InPending(c)
                /\ (AcceptEmojiPvp(u, c) \/ AcceptGenericV2Pvp(u, c)))
             => Untouched
       /\ \A w \in Stakes :
             (w > balance[BJUser]
                /\ \E p1 \in FundsRanks, d1 \in FundsRanks, p2 \in FundsRanks, d2 \in {"6"} :
                      BlackjackCommand(w, p1, d1, p2, d2))
             => Untouched
      ]_vars

\* after the tip of the run a request for a stake has been refused for lack of
\* funds, with a challenge open and no blackjack round played
C21_Witness ==
    /\ TipsSent = MaxTips
    /\ result = "InsufficientFunds"
    /\ bjHist.rounds = 0
    /\ nextCid = 1

\* C22: a reservation (the stake of a new challenge, of an accept, of a blackjack
\* round, the extra bet of a double or a split, the cost of an insurance) goes
\* through only if its amount is within the balance of the account at the moment
\* it is taken, whatever other requests have been served in between: two
\* reservations whose sum exceeds the balance never both succeed
C22_AtomicReserve ==
    [][/\ \A u \in Users, w \in Stakes :
             (/\ result' = "Created"
              /\ \/ CreateEmojiPvp(u, w, FALSE)
                 \/ \E g \in FundsConfigs : StartGenericV2Bot(u, w, g[1], g[2], g[3])
                 \/ \E g \in FundsConfigs : StartGenericV2Pvp(u, w, g[1], g[2], g[3]))
             => (w <= balance[u] /\ balance'[u] = balance[u] - w)
       /\ \A u \in Users, c \in CIDs :
             (/\ result' \in {"Accepting", "Accepted"}
              /\ AcceptEmojiPvp(u, c) \/ AcceptGenericV2Pvp(u, c))
             => (chal[c].wager <= balance[u] /\ balance'[u] = balance[u] - chal[c].wager)
       /\ \A w \in Stakes :
             (/\ result' \in {"Shown", "GameOver"}
              /\ \E p1 \in FundsRanks, d1 \in FundsRanks, p2 \in FundsRanks, d2 \in {"6"} :
                    BlackjackCommand(w, p1, d1, p2, d2))
             => w <= balance[BJUser]
       /\ (/\ result' \in {"Shown", "GameOver"}
           /\ \/ \E c \in FundsRanks, d \in ShortFinals : BjDouble(c, d)
              \/ \E c1 \in FundsRanks, c2 \in FundsRanks, d \in ShortFinals : BjSplit(c1, c2, d))
             => CurrentHand(bj).bet <= balance[BJUser]
       /\ (result' \in {"Shown", "GameOver"} /\ BjInsurance)
             => bj.initial_bet \div 2 <= balance[BJUser]
       /\ \A u \in Users : balance[u] >= 0 => balance'[u] >= 0
      ]_vars

\* the account that holds the stake of a series against the bot and the bet of a
\* blackjack round has been refused the extra bet or the insurance it cannot pay
C22_Witness ==
    /\ chal[1].kind = "v2_bot"
    /\ chal[1].challenger = BJUser
    /\ InPending(1)
    /\ TipsSent = MaxTips
    /\ bjHist.rounds = MaxRounds
    /\ bj.active
    /\ result = "InsufficientFunds"
    /\ balance[BJUser] < CurrentHand(bj).bet

\* C29: the balance of every account is its initial balance plus the sum of the
\* amounts of the transactions recorded for it, after any sequence of requests
C29_LedgerMatchesLog ==
    \A u \in Users : balance[u] = InitBalance[u] + SumSeq(txns[u])

\* C30: a tip of an amount within the sender's balance to another user who exists
\* takes the amount from the sender, gives it to the recipient and changes no
\* other balance; a tip above the sender's balance, to the sender or to a user
\* nobody knows changes no balance
C30_Tip ==
    [][\A u \in Users, a \in TipAmounts, to \in Users \cup {NoUser} :
          Tip(u, a, to) =>
             IF a <= balance[u] /\ to \in Users /\ to # u
             THEN balance' = Credit(Credit(balance, u, -a), to, a)
             ELSE balance' = balance
      ]_vars

\* C23: when the challenger cancels a challenge that nobody has accepted, the
\* challenge leaves the active set and the challenger's balance grows by exactly
\* the stake held for it
C23_CancelRefunds ==
    [][(CancelResume /\ InPending(h.cid) /\ chal[h.cid].opponent = NoUser) =>
          /\ h.cid \notin Range(pending')
          /\ balance' = Credit(balance, h.user, chal[h.cid].wager)
      ]_vars

\* C24: a cancel by somebody who is not the challenger, and a cancel of a
\* challenge that has been accepted, are refused and change nothing: an accepted
\* challenge is never removed by a cancel
C24_CancelRejected ==
    [][/\ \A u \in Users, c \in CIDs :
             (Cancel(u, c) /\ InPending(c)
                /\ (chal[c].challenger # u \/ chal[c].opponent # NoUser))
             => (h' = h /\ UNCHANGED <<balance, house, chal, pending>>)
       /\ (CancelResume /\ chal[h.cid].opponent # NoUser) => pending' = pending
      ]_vars

\* C25: an accept of a challenge that is no longer active, and a move by a party
\* of such a challenge that no active challenge takes, are answered with a
\* refusal (never dropped without an answer) and change no balance
C25_TerminalRejected ==
    [][LET Terminal(c) == c \in Created /\ ~InPending(c)
           Party(u, c) == chal[c].challenger = u \/ chal[c].opponent = u
       IN
       /\ \A u \in Users, c \in CIDs :
             (Terminal(c) /\ (AcceptEmojiPvp(u, c) \/ AcceptGenericV2Pvp(u, c)))
             => (result' \in {"ChallengeExpired", "CannotJoin", "ButtonUsed", "NotYourButton"}
                   /\ balance' = balance)
       /\ \A u \in Users, v \in Vals :
             (/\ EmojiLegacy(u, v)
              /\ \E c \in CIDs : Terminal(c) /\ Party(u, c)
              /\ FirstLegacy(pending, u) = 0)
             => (result' # "NoMatch" /\ balance' = balance)
      ]_vars

\* C26: in a duel that has been accepted, a value sent by somebody whose turn it
\* is not (the opponent in the challenger's turn, the challenger in the
\* opponent's, anybody else at any time) is not recorded and changes nothing of
\* the challenge; the opponent has no value recorded before the challenger has
\* all of a turn, and no side has more values recorded than a turn has
C26_TurnOrder ==
    [][LET InOrder(ch) ==
               ch.kind = "v2_pvp" =>
                  /\ Len(ch.p1_rolls) <= ch.rolls
                  /\ Len(ch.p2_rolls) <= ch.rolls
                  /\ Len(ch.p2_rolls) > 0 => Len(ch.p1_rolls) = ch.rolls
       IN  /\ \A c \in CIDs : InOrder(chal[c]) /\ InOrder(chal'[c])
           /\ \A c \in CIDs :
                 (/\ chal'[c] # chal[c]
                  /\ chal[c].kind = "v2_pvp" /\ chal[c].opponent # NoUser)
                 => \A u \in Users, v \in Vals :
                       (EmojiV2Pvp(u, v) \/ EmojiLegacy(u, v))
                       => \/ /\ chal[c].waiting_p1 /\ u = chal[c].challenger
                             /\ Len(chal[c].p2_rolls) = 0
                          \/ /\ chal[c].waiting_p2 /\ u = chal[c].opponent
                             /\ Len(chal[c].p1_rolls) = chal[c].rolls
      ]_vars

\* in a duel of two values a turn the opponent has one value recorded, and the
\* value somebody sent after that was not taken
C26_Witness ==
    /\ chal[1].kind = "v2_pvp"
    /\ chal[1].rolls = 2
    /\ chal[1].waiting_p2
    /\ Len(chal[1].p1_rolls) = 2
    /\ Len(chal[1].p2_rolls) = 1
    /\ result = "NoMatch"

\* C28: a round that is complete gives exactly one point to the side with the
\* higher turn total in mode normal, to the side with the lower one in mode
\* crazy, and no point to anybody when the totals are equal; the turn total of a
\* side is the sum of the values of its turn, as many as a turn has
C28_RoundPoints ==
    [][LET Award(ch, ch2, a, b) ==
               LET first == IF ch.mode = "normal" THEN a > b ELSE a < b
                   second == IF ch.mode = "normal" THEN b > a ELSE b < a
               IN /\ ch2.p1_pts = ch.p1_pts + (IF first THEN 1 ELSE 0)
                  /\ ch2.p2_pts = ch.p2_pts + (IF second THEN 1 ELSE 0)
                  /\ a = b => (ch2.p1_pts = ch.p1_pts /\ ch2.p2_pts = ch.p2_pts)
       IN
       /\ \A c \in CIDs :
             (LoopPoll(c) /\ InPending(c)) =>
                /\ Len(chal[c].p1_rolls) = chal[c].rolls
                /\ Len(chal[c].p2_rolls) = chal[c].rolls
                /\ Award(chal[c], chal'[c], SumSeq(chal[c].p1_rolls), SumSeq(chal[c].p2_rolls))
       /\ \A b \in BotRange :
             EmojiV2BotRound(b) =>
                /\ Len(chal[h.cid].p1_rolls) = chal[h.cid].rolls
                /\ Award(chal[h.cid], chal'[h.cid], SumSeq(chal[h.cid].p1_rolls), b)
      ]_vars

\* a round in mode crazy has given its point to the challenger, whose total was
\* the lower one, and the next round is about to start
C28_Witness ==
    /\ chal[1].kind = "v2_pvp"
    /\ chal[1].mode = "crazy"
    /\ loop[1].pc = "round_start"
    /\ chal[1].p1_pts = 1
    /\ chal[1].p2_pts = 0
    /\ Len(chal[1].p1_rolls) = chal[1].rolls
    /\ SumSeq(chal[1].p1_rolls) < SumSeq(chal[1].p2_rolls)

\* C27: in a series between two players no balance changes while rounds are
\* played and both stakes stay held; a round that leaves both sides below the
\* target leads back to the challenger's turn with the values of the turn
\* cleared; the series is paid exactly when a side has reached the target, and
\* then that side receives both stakes and nothing else changes
C27_Series ==
    [][\A c \in CIDs :
          /\ (LoopPoll(c) /\ InPending(c)) =>
                /\ balance' = balance
                /\ loop'[c].pc = IF chal'[c].p1_pts >= chal[c].pts \/ chal'[c].p2_pts >= chal[c].pts
                                 THEN "pay" ELSE "round_start"
          /\ LoopRoundStart(c) =>
                /\ balance' = balance
                /\ InPending(c) => c \in Range(pending')
                /\ chal'[c].p1_rolls = <<>> /\ chal'[c].p2_rolls = <<>>
                /\ chal'[c].waiting_p1 /\ ~chal'[c].waiting_p2
          /\ (\E u \in Users, v \in Vals : EmojiV2Pvp(u, v)) => balance' = balance
          /\ LoopPay(c) =>
                LET winner == IF chal[c].p1_pts >= chal[c].pts
                              THEN chal[c].challenger ELSE chal[c].opponent
                IN balance' = Credit(balance, winner, 2 * chal[c].wager)
      ]_vars

\* C31: the sweep that ends has removed from pending_pvp every challenge it has
\* refunded or forfeited, also when sending an expiry message failed and also
\* when another challenge it found expired has been removed in the meantime
C31_SweepRemoves ==
    [][(t.pc = "await" /\ t'.pc = "idle")
         => \A k \in 1..Len(t.expired) : t.expired[k] \notin Range(pending')
      ]_vars

\* C32: an accept of an open challenge that is refused because the acceptor is
\* the challenger or cannot pay the stake changes no state (only the answer);
\* an accept of an open challenge, inside its 30 seconds, by a user who is not
\* the challenger and can pay the stake goes through
C32_RejectedAcceptIsFree ==
    [][\A u \in Users, c \in CIDs :
          LET Open == InPending(c) /\ chal[c].opponent = NoUser
              InWindow == IF chal[c].kind = "pvp"
                          THEN now - chal[c].created_at <= Timeout
                          ELSE now - chal[c].emoji_wait <= Timeout
          IN  (Open /\ (AcceptEmojiPvp(u, c) \/ AcceptGenericV2Pvp(u, c)))
              => /\ (u = chal[c].challenger \/ balance[u] < chal[c].wager)
                      => UNCHANGED <<balance, house, chal, pending, nextCid, now, clicked,
                                     h, t, loop, byAccept, turnStart>>
                 /\ (/\ u # chal[c].challenger
                     /\ balance[u] >= chal[c].wager
                     /\ chal[c].owner \in {NoUser, u}
                     /\ InWindow)
                      => result' \in {"Accepting", "Accepted"}
      ]_vars

\* C33: the sweep does not expire a challenge between two players within 30
\* seconds of its acceptance, however old the challenge was when it was accepted,
\* nor within 30 seconds of the last completed turn; for the duel of one round
\* and for the series
C33_WindowRestarts ==
    [][\A c \in CIDs :
          (/\ byTick'[c].n > byTick[c].n
           /\ chal[c].kind \in {"pvp", "v2_pvp"}
           /\ turnStart[c] # NoStamp)
          => now - turnStart[c] > Timeout
      ]_vars

\* C34: on a game that is over (all hands resolved, the dealer has played) a hit
\* and a stand are refused and change nothing; a double, a split and a surrender
\* raise no exception; an insurance is refused and leaves the insurance bet as
\* it is
C34_OverIsFinal ==
    bjHist.settled > 0 =>
        LET G == bjHist.last IN
        /\ \A c \in PlayerRanks : Hit(G, c, G.dealer) = G
        /\ Stand(G, G.dealer) = G
        /\ ~RaisesIndexError(G)
        /\ TakeInsurance(G) = G

\* C35: a hit on a current hand that is Playing adds the card dealt to that
\* hand and nothing else to any hand; the hand is then Bust exactly when its
\* value is above 21, Stood exactly when it is 21 and Playing otherwise; while
\* it stays the current hand a double, a split and a surrender are refused
C35_Hit ==
    [][(bj.active /\ IsCurrentHandActionable(bj)) =>
          LET k == bj.current_hand_index + 1
              G2 == IF bj'.active THEN bj' ELSE bjHist'.last
              old == bj.hands[k]
              hd == G2.hands[k]
              Low == {j \in 0..NumAces(hd.cards) : RawValue(hd.cards) - 10 * j <= 21}
              Value == IF Low = {} THEN RawValue(hd.cards) - 10 * NumAces(hd.cards)
                       ELSE RawValue(hd.cards) - 10 * (CHOOSE j \in Low : \A i \in Low : j <= i)
          IN  \A c \in PlayerRanks :
                 BjHit(c, G2.dealer)
                 => /\ Len(G2.hands) = Len(bj.hands)
                    /\ hd.cards = Append(old.cards, c)
                    /\ hd.bet = old.bet
                    /\ \A i \in 1..Len(G2.hands) :
                          i # k => G2.hands[i].cards = bj.hands[i].cards
                    /\ hd.status = (IF Value > 21 THEN "Bust"
                                     ELSE IF Value = 21 THEN "Stood" ELSE "Playing")
                    /\ hd.status = "Playing"
                         => /\ bj'.active /\ bj'.current_hand_index = bj.current_hand_index
                            /\ \A c2 \in PlayerRanks :
                                  /\ DoubleDown(bj', c2, bj'.dealer) = bj'
                                  /\ Split(bj', c2, c2, bj'.dealer) = bj'
                            /\ Surrender(bj', bj'.dealer) = bj'
      ]_vars

\* a hand that was hit is Playing with three cards
C35_Witness ==
    /\ bj.active
    /\ bjHist.acted
    /\ IsCurrentHandActionable(bj)
    /\ Len(CurrentHand(bj).cards) = 3

\* C36: a double that changes the game was asked for the current hand while it
\* was Playing with two cards; it doubles the bet of that hand and of no other,
\* takes exactly the old bet from the balance, adds the card dealt and leaves the
\* hand Doubled, or Bust above 21, and no longer the current hand; the current
\* hand never moves back, and a hand that is Doubled stays as it is
C36_Double ==
    [][bj.active =>
          LET k == bj.current_hand_index + 1
              G2 == IF bj'.active THEN bj' ELSE bjHist'.last
              old == bj.hands[k]
              hd == G2.hands[k]
              Low == {j \in 0..NumAces(hd.cards) : RawValue(hd.cards) - 10 * j <= 21}
              Value == IF Low = {} THEN RawValue(hd.cards) - 10 * NumAces(hd.cards)
                       ELSE RawValue(hd.cards) - 10 * (CHOOSE j \in Low : \A i \in Low : j <= i)
          IN  /\ G2.current_hand_index >= bj.current_hand_index
              /\ \A i \in 1..Len(bj.hands) :
                    bj.hands[i].status = "Doubled"
                    => /\ G2.hands[i].status = "Doubled"
                       /\ G2.hands[i].cards = bj.hands[i].cards
                       /\ G2.hands[i].bet = bj.hands[i].bet
              /\ \A c \in PlayerRanks :
                    (BjDouble(c, G2.dealer) /\ G2 # bj)
                    => /\ old.status = "Playing" /\ Len(old.cards) = 2
                       /\ Len(G2.hands) = Len(bj.hands)
                       /\ hd.cards = Append(old.cards, c)
                       /\ hd.bet = 2 * old.bet
                       /\ hd.status = (IF Value > 21 THEN "Bust" ELSE "Doubled")
                       /\ \A i \in 1..Len(G2.hands) :
                             i # k => /\ G2.hands[i].cards = bj.hands[i].cards
                                      /\ G2.hands[i].bet = bj.hands[i].bet
                       /\ G2.current_hand_index > bj.current_hand_index
                       /\ balance'[BJUser] = balance[BJUser] - old.bet
                                              + (IF bj'.active THEN 0 ELSE bjHist'.credit)
      ]_vars

\* a round that is over has a hand of three cards that was doubled
C36_Witness ==
    /\ bjHist.settled > 0
    /\ \E i \in 1..Len(bjHist.last.hands) :
          /\ bjHist.last.hands[i].status = "Doubled"
          /\ Len(bjHist.last.hands[i].cards) = 3
          /\ bjHist.last.hands[i].bet = 2 * bjHist.bet

C38_Shoe ==
    [][ShoeDeal =>
          /\ shoe'.last # "IndexError"
          /\ shoe.cards < 52 => shoe'.cards = 312 - 1
          /\ shoe.cards >= 52 => shoe'.cards = shoe.cards - 1
          /\ shoe'.cards >= 51
      ]_vars

\* the shoe was dealt down to 51 cards and the next call built a new one
C38_Witness == shoe.last = "rebuilt" /\ shoe.before = 51 /\ shoe.cards = 311

\* C39: whatever is wagered, created, accepted, moved, expired or tipped, no
\* user's balance is below zero
C39_NoNegativeBalance == \A u \in Users : balance[u] >= 0

\* C40: a deposit is credited only on a notification whose confirmations have
\* reached the required number, and whatever notifications arrive, the same
\* transaction id again among them, no transaction id is credited twice
C40_CreditedOnce ==
    /\ \A i \in 1..Len(credited) : credited[i].confirmations >= RequiredConfirmations
    /\ Cardinality(CreditedIds) = Len(credited)
====
